---- MODULE Spec2Model ----
(***************************************************************************)
(* Document / element / relationship graph kept in an SQLite store         *)
(* (graph.db): batch import of CPRT workbooks (insert_cprt_data.py), the   *)
(* authoring and export API (main.py), and spreadsheet format detection    *)
(* (excel_processor.py).                                                   *)
(***************************************************************************)
EXTENDS Integers, Sequences, FiniteSets, TLC

(***************************************************************************)
(* Bounds of the model.                                                    *)
(***************************************************************************)
\* number of workbook imports started over a behaviour
MaxImports == 2
\* number of bulk-create requests over a behaviour
MaxBulk == 1
\* number of workbook imports started when the import tool runs on its own
MaxFiles == 2

(***************************************************************************)
(* Values.  Cells and columns hold strings; three sentinels stand for the  *)
(* Python values that are not strings.                                     *)
(***************************************************************************)
\* a missing cell as pandas reads it (NaN), and a NULL text column
NaN == "<NaN>"
\* a cell of a type the sqlite3 module cannot bind (datetime.time):
\* binding it raises sqlite3.ProgrammingError, a sqlite3.Error
TimeCell == "<datetime.time>"
\* an integer cell beyond 64 bits: binding it raises OverflowError,
\* which is not a sqlite3.Error
BigInt == "<int 2**70>"
\* SQL NULL in an INTEGER column (None / JSON null)
NULL == -1

\* a header cell that holds a number: pandas labels the column with an int
NumberCell == "<2024>"

\* dict.get(key, default)
Get(row, key, default) ==
    IF key \in DOMAIN row THEN row[key] ELSE default

\* Python truthiness of a string cell ('' is falsy)
Truthy(v) == v # ""

\* s holds sub as a substring
Contains(s, sub) ==
    \E i \in 1..(Len(s) - Len(sub) + 1) : SubSeq(s, i, i + Len(sub) - 1) = sub

\* BINARY collation of the strings that occur as identifiers, titles and
\* texts, as a table: Collation[i] sorts before Collation[j] iff i < j
Collation ==
    << "", "D1", "D2", "D3", "Doc", "E1", "E2", "E3", "N/A", "Other", "P",
       "related_to", "t1", "t2", "x" >>

StrRank(s) ==
    IF \E i \in 1..Len(Collation) : Collation[i] = s
    THEN CHOOSE i \in 1..Len(Collation) : Collation[i] = s
    ELSE Len(Collation) + 1

(***************************************************************************)
(* The store: the four tables of table_create_statements.py, with the      *)
(* AUTOINCREMENT counters of sqlite_sequence.                              *)
(***************************************************************************)
\* PRAGMA foreign_keys: never switched on by a connection of this program,
\* so the FOREIGN KEY clauses of the schema are not enforced
foreign_keys == FALSE

EmptyDb ==
    [ documents          |-> {},
      elements           |-> {},
      relationship_types |-> {},
      relationships      |-> {},
      seq |-> [documents |-> 0, elements |-> 0, relationship_types |-> 0] ]

\* the 4-tuple of the UNIQUE constraint of the relationships table
RelKey(r) == << r.source_id, r.dest_id, r.prov_doc_id, r.relationship_type >>

\* UNIQUE(source_id, dest_id, prov_doc_id, relationship_type): a NULL in a
\* column of the constraint makes the row distinct from every other row
RelConflict(db, src, dst, prov, typ) ==
    /\ NULL \notin {src, dst, prov, typ}
    /\ \E r \in db.relationships : RelKey(r) = << src, dst, prov, typ >>

\* REFERENCES ... of the relationships table, enforced only under
\* PRAGMA foreign_keys = ON
RelForeignKeyFails(db, src, dst, prov, typ) ==
    /\ foreign_keys
    /\ \/ src # NULL /\ ~ \E e \in db.elements : e.element_id = src
       \/ dst # NULL /\ ~ \E e \in db.elements : e.element_id = dst
       \/ prov # NULL /\ ~ \E d \in db.documents : d.document_id = prov
       \/ typ # NULL /\ ~ \E t \in db.relationship_types : t.type_id = typ

\* the keys of create_statements_map
TableNames ==
    {"documents", "elements", "relationship_types", "relationships"}

\* a CREATE TABLE that replaces a table of the same name
ExecCreateTable_Replace(tables, db, table_name) ==
    [tables |-> tables \cup {table_name},
     db |-> [db EXCEPT ![table_name] = {}],
     error |-> ""]

\* conn.execute(create_statement): CREATE TABLE <name> (...) raises
\* sqlite3.OperationalError 'table <name> already exists' and changes
\* nothing when the table exists, else it creates the table, empty
ExecCreateTable(tables, db, table_name) ==
    IF table_name \in tables
    THEN [tables |-> tables, db |-> db,
          error |-> "table " \o table_name \o " already exists"]
    ELSE [tables |-> tables \cup {table_name},
          db |-> [db EXCEPT ![table_name] = {}],
          error |-> ""]

NextRowid(db) ==
    IF db.relationships = {} THEN 1
    ELSE 1 + CHOOSE m \in {r.rowid : r \in db.relationships} :
                 \A r \in db.relationships : r.rowid <= m

\* the outcome of binding a statement's text parameters, in order:
\* "overflow" (OverflowError), "unsupported" (sqlite3.ProgrammingError) or
\* "ok"; the integer surrogate ids among the parameters always bind
RECURSIVE BindOutcome(_)
BindOutcome(params) ==
    IF params = << >> THEN "ok"
    ELSE IF Head(params) = BigInt THEN "overflow"
    ELSE IF Head(params) = TimeCell THEN "unsupported"
    ELSE BindOutcome(Tail(params))

(***************************************************************************)
(* insert_cprt_data.py: the four insert steps.  Each returns the           *)
(* connection's database after the step, the step's insert_count, the      *)
(* lines it logged, and whether an exception escaped it.                   *)
(***************************************************************************)
\* create_tables_if_not_exist: one CREATE TABLE per entry of the map; an
\* OperationalError whose text contains "already exists" is logged and
\* passed over, any other one is raised again
RECURSIVE create_tables_loop(_, _)
create_tables_loop(acc, names) ==
    IF names = << >> THEN acc
    ELSE LET table_name == Head(names)
             r == ExecCreateTable(acc.tables, acc.db, table_name)
         IN  IF r.error = ""
             THEN create_tables_loop(
                      [acc EXCEPT !.tables = r.tables, !.db = r.db,
                                  !.log = Append(@, << table_name, "ready" >>)],
                      Tail(names))
             ELSE IF Contains(r.error, "already exists")
             THEN create_tables_loop(
                      [acc EXCEPT !.log = Append(@, << table_name,
                                                       "already exists" >>)],
                      Tail(names))
             ELSE [acc EXCEPT !.raised = TRUE]

create_tables_if_not_exist(tables, db) ==
    create_tables_loop([tables |-> tables, db |-> db, raised |-> FALSE,
                        log |-> << >>],
                       << "documents", "elements", "relationship_types",
                          "relationships" >>)

StepStart(db) ==
    [db |-> db, insert_count |-> 0, raised |-> FALSE, log |-> << >>]

\* one line of the step's log per row handled: logger.debug after an
\* executed insert, logger.warning for a skipped row (with the references
\* it names), logger.error for a sqlite3.Error the step handled
Debug == [level |-> "debug", missing |-> << >>]
Warning(missing) == [level |-> "warning", missing |-> missing]
Error == [level |-> "error", missing |-> << >>]

\* INSERT OR REPLACE INTO documents ...: the last write wins
ExecInsertDocument_Replace(db, p) ==
    LET id == db.seq.documents + 1
        row == [document_id |-> id, doc_identifier |-> p[1], name |-> p[2],
                version |-> p[3], website |-> p[4], type |-> p[5]]
    IN  [db EXCEPT !.seq.documents = id,
                   !.documents =
                       {d \in @ : d.doc_identifier # p[1]} \cup {row}]

\* INSERT OR IGNORE INTO documents ...: UNIQUE(doc_identifier); the
\* AUTOINCREMENT counter advances also when the row is ignored
ExecInsertDocument(db, p) ==
    LET id == db.seq.documents + 1
        row == [document_id |-> id, doc_identifier |-> p[1], name |-> p[2],
                version |-> p[3], website |-> p[4], type |-> p[5]]
    IN  [db EXCEPT !.seq.documents = id,
                   !.documents =
                       IF \E d \in @ : d.doc_identifier = p[1]
                       THEN @ ELSE @ \cup {row}]

RECURSIVE insert_documents_loop(_, _)
insert_documents_loop(acc, documents) ==
    IF documents = << >> THEN acc
    ELSE LET doc == Head(documents)
             p == << Get(doc, "document_identifier", ""),
                     Get(doc, "title", Get(doc, "name", "")),
                     Get(doc, "version", "1.0"),
                     Get(doc, "website", ""),
                     Get(doc, "type", "unknown") >>
             b == BindOutcome(p)
         IN  IF b = "overflow" THEN [acc EXCEPT !.raised = TRUE]
             ELSE IF b = "unsupported"
             THEN insert_documents_loop(
                      [acc EXCEPT !.log = Append(@, Error)], Tail(documents))
             ELSE insert_documents_loop(
                      [acc EXCEPT !.db = ExecInsertDocument(@, p),
                                  !.insert_count = @ + 1,
                                  !.log = Append(@, Debug)],
                      Tail(documents))

insert_documents(db, documents) ==
    insert_documents_loop(StepStart(db), documents)

\* doc_id_map.get(doc_identifier): document_id or None
DocIdOf(db, doc_identifier) ==
    IF \E d \in db.documents : d.doc_identifier = doc_identifier
    THEN (CHOOSE d \in db.documents :
              d.doc_identifier = doc_identifier).document_id
    ELSE NULL

ElementParams(element) ==
    << Get(element, "type", Get(element, "element_type", "unknown")),
       Get(element, "element_identifier", ""),
       IF Truthy(Get(element, "title", "N/A"))
       THEN Get(element, "title", "N/A") ELSE "N/A",
       Get(element, "text", "") >>

\* the 4-tuple of the UNIQUE constraint of the elements table
ElemKey(e) == << e.document_id, e.element_identifier, e.title, e.text >>

\* an elements table without the UNIQUE constraint
ExecInsertElement_NoUnique(db, document_id, p) ==
    LET id == db.seq.elements + 1
        row == [element_id |-> id, document_id |-> document_id,
                element_type |-> p[1], element_identifier |-> p[2],
                title |-> p[3], text |-> p[4]]
    IN  [db EXCEPT !.seq.elements = id, !.elements = @ \cup {row}]

\* INSERT OR IGNORE INTO elements ...:
\* UNIQUE(document_id, element_identifier, title, text)
ExecInsertElement(db, document_id, p) ==
    LET id == db.seq.elements + 1
        row == [element_id |-> id, document_id |-> document_id,
                element_type |-> p[1], element_identifier |-> p[2],
                title |-> p[3], text |-> p[4]]
    IN  [db EXCEPT !.seq.elements = id,
                   !.elements =
                       IF \E e \in @ : /\ e.document_id = document_id
                                       /\ e.element_identifier = p[2]
                                       /\ e.title = p[3]
                                       /\ e.text = p[4]
                       THEN @ ELSE @ \cup {row}]

RECURSIVE insert_elements_loop(_, _)
insert_elements_loop(acc, elements) ==
    IF elements = << >> THEN acc
    ELSE LET element == Head(elements)
             doc_identifier == Get(element, "document_identifier", "")
             \* the map is built once, before the loop, and no document
             \* is inserted by this step
             document_id == DocIdOf(acc.db, doc_identifier)
             p == ElementParams(element)
             b == BindOutcome(p)
         IN  IF document_id = NULL
             THEN insert_elements_loop(
                      [acc EXCEPT !.log = Append(@,
                          Warning(<< << "document", doc_identifier >> >>))],
                      Tail(elements))
             ELSE IF b = "overflow" THEN [acc EXCEPT !.raised = TRUE]
             ELSE IF b = "unsupported"
             THEN insert_elements_loop(
                      [acc EXCEPT !.log = Append(@, Error)], Tail(elements))
             ELSE insert_elements_loop(
                      [acc EXCEPT !.db = ExecInsertElement(@, document_id, p),
                                  !.insert_count = @ + 1,
                                  !.log = Append(@, Debug)],
                      Tail(elements))

\* a step that raises when a row names a document the store does not hold
insert_elements_Strict(db, elements) ==
    IF \E i \in 1..Len(elements) :
           DocIdOf(db, Get(elements[i], "document_identifier", "")) = NULL
    THEN [StepStart(db) EXCEPT !.raised = TRUE]
    ELSE insert_elements_loop(StepStart(db), elements)

insert_elements(db, elements) ==
    insert_elements_loop(StepStart(db), elements)

\* INSERT OR IGNORE INTO relationship_types ...:
\* UNIQUE(relationship_identifier)
ExecInsertRelationshipType(db, p) ==
    LET id == db.seq.relationship_types + 1
        row == [type_id |-> id, relationship_identifier |-> p[1],
                description |-> p[2], value |-> p[3]]
    IN  [db EXCEPT !.seq.relationship_types = id,
                   !.relationship_types =
                       IF \E t \in @ : t.relationship_identifier = p[1]
                       THEN @ ELSE @ \cup {row}]

RECURSIVE insert_relationship_types_loop(_, _)
insert_relationship_types_loop(acc, relationship_types) ==
    IF relationship_types = << >> THEN acc
    ELSE LET rel_type == Head(relationship_types)
             p == << Get(rel_type, "relationship_identifier", ""),
                     Get(rel_type, "description", ""),
                     Get(rel_type, "value", "") >>
             b == BindOutcome(p)
         IN  IF b = "overflow" THEN [acc EXCEPT !.raised = TRUE]
             ELSE IF b = "unsupported"
             THEN insert_relationship_types_loop(
                      [acc EXCEPT !.log = Append(@, Error)],
                      Tail(relationship_types))
             ELSE insert_relationship_types_loop(
                      [acc EXCEPT !.db = ExecInsertRelationshipType(@, p),
                                  !.insert_count = @ + 1,
                                  !.log = Append(@, Debug)],
                      Tail(relationship_types))

insert_relationship_types(db, relationship_types) ==
    insert_relationship_types_loop(StepStart(db), relationship_types)

\* the rows of "elements e JOIN documents d" for one (doc_identifier,
\* element_identifier) key of element_id_map
ElementsOf(db, doc_identifier, element_identifier) ==
    {e \in db.elements :
        /\ e.element_identifier = element_identifier
        /\ \E d \in db.documents : /\ d.document_id = e.document_id
                                   /\ d.doc_identifier = doc_identifier}

\* the order in which the join scans the elements: SQLite walks the
\* automatic index of UNIQUE(document_id, element_identifier, title, text)
ScansBefore(e1, e2) ==
    \/ StrRank(e1.title) < StrRank(e2.title)
    \/ /\ e1.title = e2.title
       /\ StrRank(e1.text) < StrRank(e2.text)

\* element_id_map.get((doc_identifier, element_identifier)): the dict keeps
\* the last row scanned for a key
ElementIdOf(db, doc_identifier, element_identifier) ==
    LET rows == ElementsOf(db, doc_identifier, element_identifier)
    IN  IF rows = {} THEN NULL
        ELSE (CHOOSE e \in rows :
                 \A o \in rows \ {e} : ScansBefore(o, e)).element_id

\* INSERT OR IGNORE INTO relationships ...
ExecInsertRelationship(db, src, dst, prov, typ, comment) ==
    LET row == [rowid |-> NextRowid(db), source_id |-> src, dest_id |-> dst,
                prov_doc_id |-> prov, relationship_type |-> typ,
                comment |-> comment]
    IN  IF RelConflict(db, src, dst, prov, typ)
           \/ RelForeignKeyFails(db, src, dst, prov, typ)
        THEN db
        ELSE [db EXCEPT !.relationships = @ \cup {row}]

\* a diagnostic that leaves out the provenance document
MissingRefs_NoProv(source_id, dest_id, prov_id, rel_type_id, relationship) ==
    (IF source_id = NULL
     THEN << << "source", Get(relationship, "source_doc_identifier", ""),
                Get(relationship, "source_element_identifier", "") >> >>
     ELSE << >>)
    \o (IF dest_id = NULL
        THEN << << "dest", Get(relationship, "dest_doc_identifier", ""),
                   Get(relationship, "dest_element_identifier", "") >> >>
        ELSE << >>)
    \o (IF rel_type_id = NULL
        THEN << << "relationship type",
                   Get(relationship, "relationship_identifier", "") >> >>
        ELSE << >>)

\* the list "missing" of the skip diagnostic, in the order it is built
MissingRefs(source_id, dest_id, prov_id, rel_type_id, relationship) ==
    (IF source_id = NULL
     THEN << << "source", Get(relationship, "source_doc_identifier", ""),
                Get(relationship, "source_element_identifier", "") >> >>
     ELSE << >>)
    \o (IF dest_id = NULL
        THEN << << "dest", Get(relationship, "dest_doc_identifier", ""),
                   Get(relationship, "dest_element_identifier", "") >> >>
        ELSE << >>)
    \o (IF prov_id = NULL
        THEN << << "provenance doc",
                   Get(relationship, "provenance_doc_identifier", "") >> >>
        ELSE << >>)
    \o (IF rel_type_id = NULL
        THEN << << "relationship type",
                   Get(relationship, "relationship_identifier", "") >> >>
        ELSE << >>)

RECURSIVE insert_relationships_loop(_, _, _)
insert_relationships_loop(acc, maps, relationships) ==
    IF relationships = << >> THEN acc
    ELSE LET relationship == Head(relationships)
             comment == Get(relationship, "comment", "")
             source_id ==
                 ElementIdOf(maps,
                     Get(relationship, "source_doc_identifier", ""),
                     Get(relationship, "source_element_identifier", ""))
             dest_id ==
                 ElementIdOf(maps,
                     Get(relationship, "dest_doc_identifier", ""),
                     Get(relationship, "dest_element_identifier", ""))
             prov_id ==
                 DocIdOf(maps,
                     Get(relationship, "provenance_doc_identifier", ""))
             \* rel_type_id_map.get(rel_type)
             rel_type ==
                 {t \in maps.relationship_types :
                     t.relationship_identifier
                         = Get(relationship, "relationship_identifier", "")}
             rel_type_id ==
                 IF rel_type = {} THEN NULL
                 ELSE (CHOOSE t \in rel_type : TRUE).type_id
             b == BindOutcome(<< comment >>)
         IN  IF NULL \in {source_id, dest_id, prov_id, rel_type_id}
             THEN insert_relationships_loop(
                      [acc EXCEPT !.log = Append(@,
                          Warning(MissingRefs(source_id, dest_id, prov_id,
                                              rel_type_id, relationship)))],
                      maps, Tail(relationships))
             ELSE IF b = "overflow" THEN [acc EXCEPT !.raised = TRUE]
             ELSE IF b = "unsupported"
             THEN insert_relationships_loop(
                      [acc EXCEPT !.log = Append(@, Error)],
                      maps, Tail(relationships))
             ELSE insert_relationships_loop(
                      [acc EXCEPT !.db = ExecInsertRelationship(@, source_id,
                                      dest_id, prov_id, rel_type_id, comment),
                                  !.insert_count = @ + 1,
                                  !.log = Append(@, Debug)],
                      maps, Tail(relationships))

\* the three maps are read from the connection once, before the loop
insert_relationships(db, relationships) ==
    insert_relationships_loop(StepStart(db), db, relationships)

(***************************************************************************)
(* insert_cprt_data.py: process_cprt_file.  A workbook is its sheets in    *)
(* order; a sheet is a name and its rows, each row a function from the     *)
(* header cells to the row's cells.                                        *)
(***************************************************************************)
\* col.replace('\n', ' ').strip() on the headers that occur in workbooks,
\* as a table of (header, cleaned header); other headers are clean already
HeaderCleaning ==
    { << " title ", "title" >>,
      << "document_identifier\n", "document_identifier" >>,
      << "Focal Document\nElement", "Focal Document Element" >>,
      << " Focal Document Element Description",
         "Focal Document Element Description" >>,
      << "Reference Document Element\n", "Reference Document Element" >>,
      << "Security Control\nBaseline", "Security Control Baseline" >> }

CleanHeader(col) ==
    IF \E c \in HeaderCleaning : c[1] = col
    THEN (CHOOSE c \in HeaderCleaning : c[1] = col)[2]
    ELSE col

\* df.columns = [cleaned]; df.fillna('').to_dict('records'): pandas reads
\* an empty cell and an NA string as NaN, which fillna turns into ''
CleanRecords(rows) ==
    LET NAStrings ==
            {"", "N/A", "NA", "NULL", "NaN", "None", "n/a", "nan", "null",
             NaN}
        FillNa(cell) == IF cell \in NAStrings THEN "" ELSE cell
        CleanRecord(row) ==
            [c \in {CleanHeader(h) : h \in DOMAIN row} |->
                FillNa(row[CHOOSE h \in DOMAIN row : CleanHeader(h) = c])]
    IN  [i \in 1..Len(rows) |-> CleanRecord(rows[i])]

EmptyData ==
    [documents |-> << >>, elements |-> << >>,
     relationship_types |-> << >>, relationships |-> << >>]

RECURSIVE ReadSheets(_, _)
ReadSheets(result, sheets) ==
    IF sheets = << >> THEN result
    ELSE LET sheet == Head(sheets)
         IN  IF sheet.name \in DOMAIN result /\ sheet.rows # << >>
             THEN ReadSheets(
                      [result EXCEPT ![sheet.name] = CleanRecords(sheet.rows)],
                      Tail(sheets))
             ELSE ReadSheets(result, Tail(sheets))

\* pd.ExcelFile raises on a file that is not a readable workbook, and
\* col.replace raises AttributeError on the int label of a numeric header
\* cell of a sheet that is read
process_cprt_file(workbook) ==
    IF \/ ~ workbook.readable
       \/ \E s \in 1..Len(workbook.sheets) :
             /\ workbook.sheets[s].name \in DOMAIN EmptyData
             /\ workbook.sheets[s].rows # << >>
             /\ NumberCell \in DOMAIN workbook.sheets[s].rows[1]
    THEN [raised |-> TRUE, data |-> EmptyData]
    ELSE [raised |-> FALSE, data |-> ReadSheets(EmptyData, workbook.sheets)]

(***************************************************************************)
(* main.py: the bulk-create and export endpoints.                          *)
(***************************************************************************)
\* the set s as a sequence in increasing order of the strict total order
\* Before
SortBy(s, before) ==
    [i \in 1..Cardinality(s) |->
        CHOOSE x \in s : Cardinality({y \in s : << y, x >> \in before}) = i - 1]

\* POST /relationships/bulk.  The request body is any JSON object: a key may
\* be absent and an id may be null.  An entry that lacks a key raises
\* KeyError, which the handler does not catch: the connection is closed
\* without a commit.
RECURSIVE bulk_loop(_, _, _)
bulk_loop(acc, provenance_doc_id, relationships) ==
    IF relationships = << >> THEN acc
    ELSE LET rel_data == Head(relationships)
         IN  IF {"source_element_id", "dest_element_id",
                 "relationship_type_id"} \subseteq DOMAIN rel_data
             THEN LET src == rel_data["source_element_id"]
                      dst == rel_data["dest_element_id"]
                      typ == rel_data["relationship_type_id"]
                      \* no comment is given: the column is NULL, which the
                      \* export reads as NaN
                      row == [rowid |-> NextRowid(acc.db),
                              source_id |-> src, dest_id |-> dst,
                              prov_doc_id |-> provenance_doc_id,
                              relationship_type |-> typ, comment |-> NaN]
                  IN  IF RelConflict(acc.db, src, dst, provenance_doc_id, typ)
                         \/ RelForeignKeyFails(acc.db, src, dst,
                                               provenance_doc_id, typ)
                      THEN \* sqlite3.IntegrityError: continue
                           bulk_loop(acc, provenance_doc_id,
                                     Tail(relationships))
                      ELSE bulk_loop(
                               [acc EXCEPT !.db.relationships = @ \cup {row},
                                           !.success_count = @ + 1],
                               provenance_doc_id, Tail(relationships))
             ELSE [acc EXCEPT !.raised = TRUE]

create_bulk_relationships(db, relationships_data) ==
    LET provenance_doc_id == Get(relationships_data, "provenance_doc_id", NULL)
        relationships == Get(relationships_data, "relationships", << >>)
    IN  IF provenance_doc_id \in {NULL, 0} \/ relationships = << >>
        THEN [db |-> db, status |-> 400, success_count |-> 0,
              total_attempted |-> 0]
        ELSE LET r == bulk_loop([db |-> db, success_count |-> 0,
                                 raised |-> FALSE],
                                provenance_doc_id, relationships)
             IN  IF r.raised
                 THEN [db |-> db, status |-> 500, success_count |-> 0,
                       total_attempted |-> 0]
                 ELSE [db |-> r.db, status |-> 200,
                       success_count |-> r.success_count,
                       total_attempted |-> Len(relationships)]

\* datetime.now().strftime("%Y%m%d_%H%M%S") for the seconds in which the
\* requests are served: two requests may be served in the same second
Timestamps == {"20240101_120000", "20240101_120001"}

\* SELECT name FROM documents WHERE doc_identifier = ?
DocumentsNamed(db, doc_identifier) ==
    {d \in db.documents : d.doc_identifier = doc_identifier}

\* POST /provenance-documents.  The body is a ProvenanceDocumentCreate: both
\* identifiers are strings.  The INSERT is a plain one: a row with the
\* generated identifier makes it raise sqlite3.IntegrityError, which the
\* handler does not catch.
create_provenance_document(db, doc_info, timestamp) ==
    LET prov_doc_identifier ==
            "MAPPING_" \o doc_info.target_doc_identifier \o "_TO_"
                \o doc_info.source_doc_identifier \o "_" \o timestamp
        target_doc_result == DocumentsNamed(db, doc_info.target_doc_identifier)
        source_doc_result == DocumentsNamed(db, doc_info.source_doc_identifier)
    IN  IF target_doc_result = {} \/ source_doc_result = {}
        THEN [db |-> db, status |-> 400, provenance_doc_identifier |-> ""]
        ELSE LET prov_doc_name ==
                     "Mapping: "
                         \o (CHOOSE d \in target_doc_result : TRUE).name
                         \o " to "
                         \o (CHOOSE d \in source_doc_result : TRUE).name
                 id == db.seq.documents + 1
                 row == [document_id |-> id,
                         doc_identifier |-> prov_doc_identifier,
                         name |-> prov_doc_name, version |-> "1.0",
                         website |->
                             "Generated by Document Relationship Mapper",
                         type |-> "mapping_document"]
             IN  IF DocumentsNamed(db, prov_doc_identifier) # {}
                 THEN [db |-> db, status |-> 500,
                       provenance_doc_identifier |-> ""]
                 ELSE [db |-> [db EXCEPT !.seq.documents = id,
                                         !.documents = @ \cup {row}],
                       status |-> 200,
                       provenance_doc_identifier |-> prov_doc_identifier]

\* ORDER BY name; rows of the same name come in the order of the table
NameOrder(d1, d2) ==
    \/ StrRank(d1.name) < StrRank(d2.name)
    \/ /\ StrRank(d1.name) = StrRank(d2.name)
       /\ d1.document_id < d2.document_id

\* the columns GET /documents selects
Listed(d) ==
    [doc_identifier |-> d.doc_identifier, name |-> d.name,
     version |-> d.version, website |-> d.website]

\* a listing with no WHERE clause
get_documents_All(db) ==
    LET results ==
            SortBy(db.documents,
                   {p \in db.documents \X db.documents :
                       NameOrder(p[1], p[2])})
    IN  [i \in 1..Len(results) |-> Listed(results[i])]

\* GET /documents: WHERE type != 'mapping_document' ORDER BY name
get_documents(db) ==
    LET rows == {d \in db.documents : d.type # "mapping_document"}
        results ==
            SortBy(rows, {p \in rows \X rows : NameOrder(p[1], p[2])})
    IN  [i \in 1..Len(results) |-> Listed(results[i])]

\* [doc.strip() for doc in provenance_docs.split(',') if doc.strip()], as a
\* set: the list is only used in an IN (...) condition
ProvDocList(pieces) ==
    LET \* doc.strip(), as a table: other pieces have no surrounding
        \* whitespace
        Stripping == { << " ", "" >>, << " P", "P" >>, << "D1 ", "D1" >> }
        Strip(piece) ==
            IF \E c \in Stripping : c[1] = piece
            THEN (CHOOSE c \in Stripping : c[1] = piece)[2]
            ELSE piece
    IN  {Strip(pieces[i]) : i \in 1..Len(pieces)} \ {""}

\* the rows with a given primary key (at most one)
ElementsById(db, id) == {e \in db.elements : e.element_id = id}
DocumentsById(db, id) == {d \in db.documents : d.document_id = id}
TypesById(db, id) == {t \in db.relationship_types : t.type_id = id}

\* the relationships query: the six inner joins, each on a primary key,
\* drop every row one of whose references matches no row
JoinedRelationships(db) ==
    UNION { [r : {t3[1]}, se : {t3[2]}, de : {t3[3]},
             sd : DocumentsById(db, t3[2].document_id),
             dd : DocumentsById(db, t3[3].document_id),
             pd : DocumentsById(db, t3[1].prov_doc_id),
             rt : TypesById(db, t3[1].relationship_type)] :
            t3 \in
                { t \in db.relationships \X db.elements \X db.elements :
                    /\ t[1].source_id = t[2].element_id
                    /\ t[1].dest_id = t[3].element_id } }

\* a handler that stores the relationship it has validated
create_relationship_Insert(db, relationship) ==
    LET src == ElementsOf(db, relationship.source_doc_identifier,
                          relationship.source_element_identifier)
        dst == ElementsOf(db, relationship.dest_doc_identifier,
                          relationship.dest_element_identifier)
        typ == {rt \in db.relationship_types :
                   rt.relationship_identifier
                       = relationship.relationship_identifier}
    IN  IF src = {} \/ dst = {} \/ typ = {}
        THEN [db |-> db, status |-> 400, source_element_id |-> NULL,
              dest_element_id |-> NULL, relationship_type_id |-> NULL]
        ELSE LET s == (CHOOSE e \in src : TRUE).element_id
                 d == (CHOOSE e \in dst : TRUE).element_id
                 ty == (CHOOSE rt \in typ : TRUE).type_id
             IN  [db |-> ExecInsertRelationship(db, s, d, NULL, ty, NaN),
                  status |-> 200, source_element_id |-> s,
                  dest_element_id |-> d, relationship_type_id |-> ty]

\* POST /relationships.  The body is a RelationshipCreate: five strings.
\* Each of the three queries is read with fetchone(): the first row the
\* join scans.  Nothing is written.
create_relationship(db, relationship) ==
    LET First(rows) ==
            CHOOSE e \in rows : \A o \in rows : o = e \/ ScansBefore(e, o)
        source_result ==
            ElementsOf(db, relationship.source_doc_identifier,
                       relationship.source_element_identifier)
        dest_result ==
            ElementsOf(db, relationship.dest_doc_identifier,
                       relationship.dest_element_identifier)
        rel_type_result ==
            {rt \in db.relationship_types :
                rt.relationship_identifier
                    = relationship.relationship_identifier}
    IN  IF source_result = {} \/ dest_result = {} \/ rel_type_result = {}
        THEN [db |-> db, status |-> 400, source_element_id |-> NULL,
              dest_element_id |-> NULL, relationship_type_id |-> NULL]
        ELSE [db |-> db, status |-> 200,
              source_element_id |-> First(source_result).element_id,
              dest_element_id |-> First(dest_result).element_id,
              relationship_type_id |->
                  (CHOOSE rt \in rel_type_result : TRUE).type_id]

\* jsonschema.validate(response, CPRT_SCHEMA): the schema file is not part
\* of the sources; the response has the four buckets of a bundle, each a
\* list
ValidatesSchema(bundle) ==
    /\ DOMAIN bundle = {"documents", "elements", "relationship_types",
                        "relationships"}
    /\ \A b \in DOMAIN bundle : DOMAIN bundle[b] = 1..Len(bundle[b])

\* GET /getDocument: 404 when no document has the identifier, else the
\* document, the elements joined to it, every relationship type, and the
\* relationships of the six inner joins whose source or destination
\* document has the identifier; rows come in the order of the scan
get_document(db, document_identifier) ==
    LET doc_result == DocumentsNamed(db, document_identifier)
        elements_results ==
            {e \in db.elements :
                \E d \in DocumentsById(db, e.document_id) :
                    d.doc_identifier = document_identifier}
        relationships_results ==
            {j \in JoinedRelationships(db) :
                \/ j.sd.doc_identifier = document_identifier
                \/ j.dd.doc_identifier = document_identifier}
        documents ==
            SortBy(doc_result,
                   {p \in doc_result \X doc_result :
                       p[1].document_id < p[2].document_id})
        elements ==
            SortBy(elements_results,
                   {p \in elements_results \X elements_results :
                       p[1].element_id < p[2].element_id})
        rel_types ==
            SortBy(db.relationship_types,
                   {p \in db.relationship_types \X db.relationship_types :
                       p[1].type_id < p[2].type_id})
        relationships ==
            SortBy(relationships_results,
                   {p \in relationships_results \X relationships_results :
                       p[1].r.rowid < p[2].r.rowid})
        response ==
            [documents |->
                 [i \in 1..Len(documents) |->
                     [doc_identifier |-> documents[i].doc_identifier,
                      name |-> documents[i].name,
                      version |-> documents[i].version,
                      website |-> documents[i].website]],
             elements |->
                 [i \in 1..Len(elements) |->
                     [doc_identifier |-> document_identifier,
                      element_type |-> elements[i].element_type,
                      element_identifier |-> elements[i].element_identifier,
                      title |-> elements[i].title,
                      text |-> elements[i].text]],
             relationship_types |->
                 [i \in 1..Len(rel_types) |->
                     [relationship_identifier |->
                          rel_types[i].relationship_identifier,
                      description |-> rel_types[i].description]],
             relationships |->
                 [i \in 1..Len(relationships) |->
                     [source_element_identifier |->
                          relationships[i].se.element_identifier,
                      source_doc_identifier |->
                          relationships[i].sd.doc_identifier,
                      dest_element_identifier |->
                          relationships[i].de.element_identifier,
                      dest_doc_identifier |->
                          relationships[i].dd.doc_identifier,
                      provenance_doc_identifier |->
                          relationships[i].pd.doc_identifier,
                      relationship_identifier |->
                          relationships[i].rt.relationship_identifier]]]
    IN  IF doc_result = {} THEN [status |-> 404, bundle |-> << >>]
        ELSE IF ~ ValidatesSchema(response)
        THEN [status |-> 500, bundle |-> << >>]
        ELSE [status |-> 200, bundle |-> response]

\* a query with no ORDER BY: the rows come in the order of the scan of the
\* relationships table
RelOrder_Scan(j1, j2) ==
    j1.r.rowid < j2.r.rowid

\* ORDER BY sd.doc_identifier, se.element_identifier; rows that tie come in
\* the order of the scan of the relationships table
RelOrder(j1, j2) ==
    \/ StrRank(j1.sd.doc_identifier) < StrRank(j2.sd.doc_identifier)
    \/ /\ j1.sd.doc_identifier = j2.sd.doc_identifier
       /\ \/ StrRank(j1.se.element_identifier)
                 < StrRank(j2.se.element_identifier)
          \/ /\ j1.se.element_identifier = j2.se.element_identifier
             /\ j1.r.rowid < j2.r.rowid

\* the elements sheet built from the sources of the relationships alone
referenced_element_ids_Sources(joined) ==
    {j.se.element_id : j \in joined}

\* list(set(relationships_df['source_element_id'].tolist()
\*          + relationships_df['dest_element_id'].tolist()))
referenced_element_ids(joined) ==
    {j.se.element_id : j \in joined} \cup {j.de.element_id : j \in joined}

\* GET /relationships/export.  provenance_docs is given as the pieces of
\* the query parameter between its commas; << >> is an absent or empty
\* parameter.  The response is 404 when no relationship matches, else the
\* sheets written: the four tabs for "excel", the relationships table
\* alone for "csv".
export_relationships(db, format, provenance_docs) ==
    LET RelationshipRecord(j) ==
            [source_element_identifier |-> j.se.element_identifier,
             source_doc_identifier     |-> j.sd.doc_identifier,
             dest_element_identifier   |-> j.de.element_identifier,
             dest_doc_identifier       |-> j.dd.doc_identifier,
             provenance_doc_identifier |-> j.pd.doc_identifier,
             relationship_identifier   |-> j.rt.relationship_identifier,
             comment                   |-> j.r.comment,
             source_element_id         |-> j.se.element_id,
             dest_element_id           |-> j.de.element_id]
        \* relationships_df.drop(
        \*     columns=['source_element_id', 'dest_element_id'])
        DropIds(rec) ==
            [c \in DOMAIN rec \ {"source_element_id", "dest_element_id"} |->
                rec[c]]
        DocOrder(d1, d2) ==
            \/ StrRank(d1.doc_identifier) < StrRank(d2.doc_identifier)
            \/ /\ StrRank(d1.doc_identifier) = StrRank(d2.doc_identifier)
               /\ d1.document_id < d2.document_id
        \* SELECT doc_identifier, name, version, website, type
        DocumentRecord(d) ==
            [doc_identifier |-> d.doc_identifier, name |-> d.name,
             version |-> d.version, website |-> d.website, type |-> d.type]
        \* ORDER BY d.doc_identifier, e.element_identifier
        ElementOrder(j1, j2) ==
            \/ StrRank(j1.d.doc_identifier) < StrRank(j2.d.doc_identifier)
            \/ /\ j1.d.doc_identifier = j2.d.doc_identifier
               /\ \/ StrRank(j1.e.element_identifier)
                         < StrRank(j2.e.element_identifier)
                  \/ /\ j1.e.element_identifier = j2.e.element_identifier
                     /\ j1.e.element_id < j2.e.element_id
        ElementRecord(j) ==
            [doc_identifier |-> j.d.doc_identifier,
             element_type |-> j.e.element_type,
             element_identifier |-> j.e.element_identifier,
             title |-> j.e.title, text |-> j.e.text]
        TypeOrder(t1, t2) ==
            \/ StrRank(t1.relationship_identifier)
                   < StrRank(t2.relationship_identifier)
            \/ /\ StrRank(t1.relationship_identifier)
                      = StrRank(t2.relationship_identifier)
               /\ t1.type_id < t2.type_id
        \* SELECT relationship_identifier, description
        TypeRecord(t) ==
            [relationship_identifier |-> t.relationship_identifier,
             description |-> t.description]
        prov_doc_list ==
            IF provenance_docs # << >> THEN ProvDocList(provenance_docs)
            ELSE {}
        joined ==
            IF prov_doc_list # {}
            THEN {j \in JoinedRelationships(db) :
                     j.pd.doc_identifier \in prov_doc_list}
            ELSE JoinedRelationships(db)
        sorted_relationships ==
            SortBy(joined, {p \in joined \X joined : RelOrder(p[1], p[2])})
        relationships_df ==
            [i \in 1..Len(sorted_relationships) |->
                RelationshipRecord(sorted_relationships[i])]
        mapped_documents ==
            {j.sd.doc_identifier : j \in joined}
                \cup {j.dd.doc_identifier : j \in joined}
        documents_results ==
            {d \in db.documents : d.doc_identifier \in mapped_documents}
        sorted_documents ==
            SortBy(documents_results,
                   {p \in documents_results \X documents_results :
                       DocOrder(p[1], p[2])})
        documents_df ==
            [i \in 1..Len(sorted_documents) |->
                DocumentRecord(sorted_documents[i])]
        elements_results ==
            UNION {[e : {e}, d : DocumentsById(db, e.document_id)] :
                      e \in {x \in db.elements :
                                x.element_id
                                    \in referenced_element_ids(joined)}}
        sorted_elements ==
            SortBy(elements_results,
                   {p \in elements_results \X elements_results :
                       ElementOrder(p[1], p[2])})
        elements_df ==
            [i \in 1..Len(sorted_elements) |->
                ElementRecord(sorted_elements[i])]
        unique_relationship_types ==
            {j.rt.relationship_identifier : j \in joined}
        rel_types_results ==
            {t \in db.relationship_types :
                t.relationship_identifier \in unique_relationship_types}
        sorted_rel_types ==
            SortBy(rel_types_results,
                   {p \in rel_types_results \X rel_types_results :
                       TypeOrder(p[1], p[2])})
        relationship_types_df ==
            [i \in 1..Len(sorted_rel_types) |->
                TypeRecord(sorted_rel_types[i])]
        relationships_export_df ==
            [i \in 1..Len(relationships_df) |-> DropIds(relationships_df[i])]
    IN  IF joined = {}
        THEN [status |-> 404, format |-> format, sheets |-> << >>]
        ELSE IF format = "excel"
        THEN [status |-> 200, format |-> format,
              sheets |->
                << [name |-> "documents", rows |-> documents_df],
                   [name |-> "elements", rows |-> elements_df],
                   [name |-> "relationships",
                    rows |-> relationships_export_df],
                   [name |-> "relationship_types",
                    rows |-> relationship_types_df] >>]
        ELSE [status |-> 200, format |-> format,
              sheets |->
                << [name |-> "relationships",
                    rows |-> relationships_export_df] >>]

(***************************************************************************)
(* excel_processor.py: detect_excel_file_type, on the number of sheets of  *)
(* the workbook and the header cells of its first sheet.                   *)
(***************************************************************************)
\* the rows main() maps at a time
MaxRows == 2

\* mapped_row[db_column] = row[excel_column]: KeyError when the row lacks
\* the column
map_dictionaries_Strict(data, mapping) ==
    IF \E i \in 1..Len(data), k \in 1..Len(mapping) :
           mapping[k][2] \notin DOMAIN data[i]
    THEN [raised |-> TRUE, mapped_data |-> << >>]
    ELSE [raised |-> FALSE,
          mapped_data |->
              [i \in 1..Len(data) |->
                  [db_column \in {mapping[k][1] : k \in 1..Len(mapping)} |->
                      LET k == CHOOSE k \in 1..Len(mapping) :
                                   mapping[k][1] = db_column
                      IN  data[i][mapping[k][2]]]]]

\* map_dictionaries, the mapping being the items of the dict: every row
\* gives a row with the keys of the mapping, each holding
\* row.get(excel_column, "")
map_dictionaries(data, mapping) ==
    [raised |-> FALSE,
     mapped_data |->
         [i \in 1..Len(data) |->
             [db_column \in {mapping[k][1] : k \in 1..Len(mapping)} |->
                 LET k == CHOOSE k \in 1..Len(mapping) :
                              mapping[k][1] = db_column
                 IN  Get(data[i], mapping[k][2], "")]]]

\* the ValueError raised at the end of the try block is caught by the
\* handler of the same block, which raises a ValueError that quotes it
detect_excel_file_type(num_sheets, header) ==
    LET columns == {CleanHeader(col) : col \in header}
        expected_columns ==
            {"Focal Document Element", "Focal Document Element Description",
             "Reference Document Element"}
    IN  IF NumberCell \in header
        THEN \* col.replace: 'int' object has no attribute 'replace'
             [type |-> "ValueError",
              message |-> "Error detecting file type",
              cause |-> [message |-> "AttributeError"]]
        ELSE IF num_sheets > 1 /\ "Security Control Baseline" \in columns
        THEN [type |-> "sp800-53"]
        ELSE IF /\ num_sheets = 1
                /\ "Security Control Baseline" \notin columns
                /\ \A col \in expected_columns : col \in columns
        THEN [type |-> "csf"]
        ELSE [type |-> "ValueError",
              message |-> "Error detecting file type",
              cause |-> [message |-> "Cannot determine file type",
                         sheets |-> num_sheets, columns |-> columns]]

(***************************************************************************)
(* enhance_mappings.py: MappingEnhancer.  A store-reading operation opens  *)
(* a connection inside its try block and closes it in the finally clause;  *)
(* "fault" is what the store does to the operation: "none", "query" (the   *)
(* statement raises, for instance on a locked database) or "connect"       *)
(* (sqlite3.connect raises: the database file cannot be opened).           *)
(***************************************************************************)
StoreFaults == {"none", "query", "connect"}


\* cache_key = f"{document_id}::{element_id}"
CacheKey(document_id, element_id) == document_id \o "::" \o element_id

\* the element_data of a pair that has no row
NotFound(document_id, element_id) ==
    [title |-> "Element not found",
     text |-> "Could not locate element " \o element_id
                  \o " in document " \o document_id]

\* the dictionary returned by the handler of the try block
LookupError ==
    [title |-> "Lookup error",
     text |-> "Error retrieving element data: database is locked"]

\* the element_data of the row fetchone() returns: the first the join scans
Found(rows) ==
    LET result == CHOOSE e \in rows : \A o \in rows : o = e \/ ScansBefore(e, o)
    IN  [title |-> IF Truthy(result.title) THEN result.title ELSE "N/A",
         text |-> IF Truthy(result.text) THEN result.text ELSE ""]

\* what a call leaves: the value returned or the exception that leaves the
\* call, the cache, whether the store was queried, and the connections
\* opened and closed
Returned(value, cache, queried, opened) ==
    [raised |-> "none", value |-> value, element_cache |-> cache,
     queried |-> queried, opened |-> opened, closed |-> opened]

\* conn is unbound when sqlite3.connect raised: conn.close() of the finally
\* clause raises UnboundLocalError, which replaces the value being returned
Unbound(cache) ==
    [raised |-> "UnboundLocalError", value |-> [title |-> "", text |-> ""],
     element_cache |-> cache, queried |-> FALSE, opened |-> 0, closed |-> 0]

\* a lookup that asks the store every time
lookup_element_text_NoCache(cache, db, fault, document_id, element_id) ==
    LET cache_key == CacheKey(document_id, element_id)
        rows == ElementsOf(db, document_id, element_id)
        element_data ==
            IF rows # {} THEN Found(rows)
            ELSE NotFound(document_id, element_id)
    IN  IF fault = "connect" THEN Unbound(cache)
        ELSE IF fault = "query" THEN Returned(LookupError, cache, TRUE, 1)
        ELSE Returned(element_data, (cache_key :> element_data) @@ cache,
                      TRUE, 1)

lookup_element_text(cache, db, fault, document_id, element_id) ==
    LET cache_key == CacheKey(document_id, element_id)
        rows == ElementsOf(db, document_id, element_id)
        element_data ==
            IF rows # {} THEN Found(rows)
            ELSE NotFound(document_id, element_id)
    IN  IF cache_key \in DOMAIN cache
        THEN Returned(cache[cache_key], cache, FALSE, 0)
        ELSE IF fault = "connect" THEN Unbound(cache)
        ELSE IF fault = "query" THEN Returned(LookupError, cache, TRUE, 1)
        ELSE Returned(element_data, (cache_key :> element_data) @@ cache,
                      TRUE, 1)

\* validate_database_structure: the tables and the columns it requires are
\* those of the schema
validate_database_structure(fault) ==
    IF fault = "connect"
    THEN [raised |-> "UnboundLocalError", value |-> FALSE,
          opened |-> 0, closed |-> 0]
    ELSE [raised |-> "none", value |-> (fault = "none"),
          opened |-> 1, closed |-> 1]

\* df['source_text'] = ...; df['dest_text'] = ...: the columns are put last
EnhancedColumns_Append(columns) ==
    [raised |-> FALSE, columns |-> columns \o << "source_text", "dest_text" >>]

\* insert_pos = df.columns.get_loc('dest_title') + 1, then
\* df.insert(insert_pos, 'source_text', ...) and
\* df.insert(insert_pos + 1, 'dest_text', ...): get_loc raises KeyError when
\* no column has the label, insert raises ValueError when its label is a
\* column already
EnhancedColumns(columns) ==
    LET labels == {columns[i] : i \in 1..Len(columns)}
        insert_pos == CHOOSE i \in 1..Len(columns) : columns[i] = "dest_title"
    IN  IF \/ "dest_title" \notin labels
           \/ "source_text" \in labels
           \/ "dest_text" \in labels
        THEN [raised |-> TRUE, columns |-> columns]
        ELSE [raised |-> FALSE,
              columns |-> SubSeq(columns, 1, insert_pos)
                              \o << "source_text", "dest_text" >>
                              \o SubSeq(columns, insert_pos + 1,
                                        Len(columns))]

\* print_enhancement_summary: the two counts of
\* df[...].str.contains('not found|error', case=False, na=False).sum();
\* the folding of case is a table of the letters of the pattern
print_enhancement_summary(source_texts, dest_texts) ==
    LET folded == [c \in {"N", "O", "T", "F", "U", "D", "E", "R"} |->
                      CASE c = "N" -> "n" [] c = "O" -> "o" [] c = "T" -> "t"
                        [] c = "F" -> "f" [] c = "U" -> "u" [] c = "D" -> "d"
                        [] c = "E" -> "e" [] c = "R" -> "r"]
        Fold(c) == IF c \in DOMAIN folded THEN folded[c] ELSE c
        Search(text, pattern) ==
            \E i \in 1..(Len(text) - Len(pattern) + 1) :
                \A k \in 1..Len(pattern) :
                    Fold(SubSeq(text, i + k - 1, i + k - 1))
                        = SubSeq(pattern, k, k)
        Matches(text) ==
            Search(text, "not found") \/ Search(text, "error")
        Count(texts) ==
            Cardinality({i \in 1..Len(texts) : Matches(texts[i])})
    IN  [empty_source_text |-> Count(source_texts),
         empty_dest_text |-> Count(dest_texts)]

(***************************************************************************)
(* Inputs: the workbooks of data/cprt_spreadsheets, the bodies of the      *)
(* bulk-create requests and the parameters of the export requests.         *)
(***************************************************************************)
Doc(id) ==
    ("document_identifier\n" :> id)
        @@ [title |-> "Doc", version |-> "1.0", website |-> NaN,
            type |-> IF id = "P" THEN "mapping_document" ELSE "standard"]

Elem(doc, id, title) ==
    (" title " :> title)
        @@ [document_identifier |-> doc, element_identifier |-> id,
            type |-> "control", text |-> "x"]

RelType(id) ==
    [relationship_identifier |-> id, description |-> "related", value |-> NaN]

Rel(sd, se, dd, de, prov, typ, comment) ==
    [source_doc_identifier |-> sd, source_element_identifier |-> se,
     dest_doc_identifier |-> dd, dest_element_identifier |-> de,
     provenance_doc_identifier |-> prov, relationship_identifier |-> typ,
     comment |-> comment]

BaseRows ==
    [documents |-> << Doc("D1"), Doc("D2"), Doc("P") >>,
     elements |-> << Elem("D1", "E1", "t1"), Elem("D1", "E2", NaN),
                     Elem("D2", "E3", "t1") >>,
     relationship_types |-> << RelType("related_to") >>,
     relationships |->
         << Rel("D1", "E1", "D2", "E3", "P", "related_to", "c1") >>]

\* a row of each kind with a cell of the given Python value in a bound column
FaultyRows(cell) ==
    [documents |-> << [Doc("D2") EXCEPT !.version = cell] >>,
     elements |-> << [Elem("D1", "E2", "t2") EXCEPT !.text = cell] >>,
     relationship_types |-> << [RelType("rel2") EXCEPT !.value = cell] >>,
     relationships |->
         << Rel("D1", "E2", "D2", "E3", "P", "related_to", cell) >>]

Sheets(rows) ==
    << [name |-> "documents", rows |-> rows.documents],
       [name |-> "elements", rows |-> rows.elements],
       [name |-> "Notes", rows |-> << [remark |-> "x"] >>],
       [name |-> "relationship_types", rows |-> rows.relationship_types],
       [name |-> "relationships", rows |-> rows.relationships] >>

Steps == {"documents", "elements", "relationship_types", "relationships"}

\* the relationship rows with every combination of references that do and
\* do not name a row of BaseRows: row i has an unknown source element,
\* destination document, provenance document, relationship type according
\* to the four bits of i % 16; the last row has no unknown reference
SkipRows ==
    [i \in 1..16 |->
        Rel("D1", IF i % 2 = 1 THEN "E9" ELSE "E1",
            IF (i \div 2) % 2 = 1 THEN "D9" ELSE "D2", "E3",
            IF (i \div 4) % 2 = 1 THEN "P9" ELSE "P",
            IF (i \div 8) % 2 = 1 THEN "rel9" ELSE "related_to",
            "c2")]

\* BaseRows with the rows extra put after the rows of one step (or, for
\* step "all", before the rows of every step)
WithRows(step, extra) ==
    [st \in Steps |->
        IF step = "all" THEN extra[st] \o BaseRows[st]
        ELSE IF st = step THEN BaseRows[st] \o extra[st]
        ELSE BaseRows[st]]

OverflowNames ==
    {"overflow_documents", "overflow_elements",
     "overflow_relationship_types", "overflow_relationships"}

\* the file downloaded from the last export is named "export"
WorkbookNames ==
    {"base", "skips", "timecells", "ambiguous", "unreadable", "numbered",
     "export"}
        \cup OverflowNames

Workbook(name, exported) ==
    CASE name = "base" ->
            [readable |-> TRUE, sheets |-> Sheets(BaseRows)]
      [] name = "skips" ->
            [readable |-> TRUE,
             sheets |-> << [name |-> "relationships", rows |-> SkipRows] >>]
      [] name = "timecells" ->
            [readable |-> TRUE,
             sheets |-> Sheets(WithRows("all", FaultyRows(TimeCell)))]
      [] name = "ambiguous" ->
            [readable |-> TRUE,
             sheets |-> << [name |-> "documents", rows |-> << Doc("D1") >>],
                           [name |-> "elements",
                            rows |-> << Elem("D9", "E9", "t1"),
                                        Elem("D1", "E1", "t2") >>],
                           [name |-> "relationships", rows |-> << >>] >>]
      [] name = "numbered" ->
            [readable |-> TRUE,
             \* a column of the documents sheet has a number as header
             sheets |-> << [name |-> "documents",
                            rows |-> << (NumberCell :> "x") @@ Doc("D3") >>]
                        >>]
      [] name = "renamed" ->
            [readable |-> TRUE,
             sheets |-> << [name |-> "documents",
                            rows |-> << [Doc("D1") EXCEPT !.title = "Other",
                                                          !.version = "2.0",
                                                          !.website = "w",
                                                          !.type = NaN],
                                        [Doc("D3") EXCEPT !.type = NaN] >>]
                        >>]
      [] name = "unreadable" ->
            [readable |-> FALSE, sheets |-> << >>]
      [] name = "export" ->
            [readable |-> TRUE, sheets |-> exported]
      [] name \in OverflowNames ->
            [readable |-> TRUE,
             \* the last row of one step overflows
             sheets |-> Sheets(WithRows(
                            CHOOSE st \in Steps : name = "overflow_" \o st,
                            FaultyRows(BigInt)))]

\* ids as the requests of a client of the API may carry them: ids the
\* store handed out, ids of no row, null
Entry(src, dst, typ) ==
    [source_element_id |-> src, dest_element_id |-> dst,
     relationship_type_id |-> typ]

BulkRequests ==
    { [provenance_doc_id |-> 1,
       relationships |-> << Entry(1, 3, 1), Entry(1, 3, 1) >>],
      [provenance_doc_id |-> 3,
       relationships |-> << Entry(2, 3, 1), Entry(1, 3, 1) >>],
      [provenance_doc_id |-> 3,
       relationships |-> << Entry(NULL, 3, 1), Entry(NULL, 3, 1) >>],
      [provenance_doc_id |-> 3,
       relationships |-> << Entry(1, 9, 1) >>],
      [provenance_doc_id |-> 3,
       relationships |-> << Entry(3, 1, 1),
                            [source_element_id |-> 2,
                             relationship_type_id |-> 1] >>],
      [relationships |-> << Entry(1, 3, 1) >>],
      [provenance_doc_id |-> 3, relationships |-> << >>] }

\* the header cells a first sheet is made of, and the sheet counts
HeaderCells ==
    {"Focal Document\nElement", " Focal Document Element Description",
     "Reference Document Element", "Security Control\nBaseline",
     "Security Control Baseline", "Comments", NumberCell}

MaxSheets == 2

ExportFilters ==
    { << >>, << "P" >>, << " P", " " >>, << "D1 " >>, << " " >> }

(***************************************************************************)
(* State.                                                                  *)
(***************************************************************************)
(* Inputs of the mapping enhancement: the files of data/mappings.          *)
(***************************************************************************)
MaxMappings == 2

MappingRow(sd, se, dd, de) ==
    [source_document |-> sd, source_element |-> se,
     dest_document |-> dd, dest_element |-> de]

MappingColumns ==
    << "source_element", "source_document", "dest_element", "dest_document",
       "dest_title", "relationship_type" >>

\* a mapping file: whether it has a sheet 'Relationships', and the columns
\* and the rows of that sheet
MappingFile(name) ==
    CASE name = "direct" ->
            [sheet |-> TRUE, columns |-> MappingColumns,
             rows |-> << MappingRow("D1", "E1", "D2", "E3") >>]
      [] name = "scoped" ->
            [sheet |-> TRUE, columns |-> MappingColumns,
             rows |-> << MappingRow("D1::E9", "x", "D1", "E9::x"),
                         MappingRow("D1", "E1", "D9", "E9") >>]
      [] name = "untitled" ->
            [sheet |-> TRUE,
             columns |-> SelectSeq(MappingColumns,
                                   LAMBDA c : c # "dest_title"),
             rows |-> << MappingRow("D1", "E1", "D1", "E1") >>]
      [] name = "other" ->
            [sheet |-> FALSE, columns |-> << >>, rows |-> << >>]
      \* the output of an earlier run on the file "direct"
      [] name = "direct_enhanced_20240101_120000" ->
            [sheet |-> TRUE,
             columns |-> EnhancedColumns(MappingColumns).columns,
             rows |-> << MappingRow("D1", "E1", "D2", "E3") >>]

\* the files the directory can hold: a file occurs once
MappingBatches ==
    UNION {{f \in [1..k -> {"direct", "scoped", "untitled", "other",
                            "direct_enhanced_20240101_120000"}] :
               \A i, j \in 1..k : i # j => f[i] # f[j]} : k \in 1..MaxMappings}

\* the files the import tool is run on while other programs use the store
ToolRuns == {"base", "ambiguous"}

\* no table creation has been run
NoDdl == [raised |-> FALSE, log |-> << >>]

\* two server processes, each serving one bulk-create request
Clients == {1, 2}

\* the bodies of the two requests
RaceRequests ==
    { [provenance_doc_id |-> 3,
       relationships |-> << Entry(1, 3, 1), Entry(2, 3, 1) >>],
      [provenance_doc_id |-> 3,
       relationships |-> << Entry(2, 3, 1) >>],
      [provenance_doc_id |-> 3,
       relationships |-> << Entry(NULL, 3, 1) >>] }

NoRequest ==
    [pc |-> "idle", body |-> [relationships |-> << >>], index |-> 0,
     success_count |-> 0, db |-> EmptyDb, status |-> 0]

\* the bodies of the requests for a provenance document
MaxCreations == 2

ProvenanceRequests ==
    { [target_doc_identifier |-> "D1", source_doc_identifier |-> "D2"],
      [target_doc_identifier |-> "D2", source_doc_identifier |-> "D3"],
      [target_doc_identifier |-> "D9", source_doc_identifier |-> "D1"],
      [target_doc_identifier |-> "D1", source_doc_identifier |-> "D9"] }

(***************************************************************************)
VARIABLES
    store,          \* the committed contents of graph.db
    conn,           \* the database as the import's connection sees it
    in_transaction, \* the import's connection has an open transaction
    pc,             \* position of main() of insert_cprt_data.py
    excel_files,    \* the files of the running batch, by name
    file_index,     \* the file of the batch being processed
    cprt_data,      \* process_cprt_file's result for that file
    counts,         \* doc_count, elem_count, rel_type_count, rel_count
    logs,           \* the lines each step logged for that file
    total_stats,    \* the totals of the running batch
    outcome,        \* per file of the batch: "committed" or "rolled_back"
    response,       \* the response to the last API request, until read
    exported,       \* the sheets of the file "export" of the directory
    imports,        \* file imports started
    bulks,          \* bulk-create requests made
    file_shape,     \* excel_processor.py: the file main() is looking at
    file_type,      \* and what detect_excel_file_type made of it
    mapped,         \* the last call of map_dictionaries
    enhancer,       \* enhance_mappings.py: the MappingEnhancer of a run
    lookup,         \* the last call of a store-reading operation of the run
    answered,       \* what the first answered lookup of a pair returned
    removed,        \* the rows deleted so far, as (table, id)
    creations,      \* requests for a provenance document made
    requests,       \* the bulk-create requests of two server processes
    lock,           \* the request that holds the write lock of graph.db
    schema,         \* the tables of graph.db
    ddl             \* how the last call of create_tables_if_not_exist went

vars ==
    << store, conn, in_transaction, pc, excel_files, file_index, cprt_data,
       counts, logs, total_stats, outcome, response, exported, imports,
       bulks, file_shape, file_type, mapped, enhancer, lookup, answered,
       removed, creations, requests, lock, schema, ddl >>

ZeroCounts ==
    [documents |-> 0, elements |-> 0, relationship_types |-> 0,
     relationships |-> 0]

NoLogs ==
    [documents |-> << >>, elements |-> << >>, relationship_types |-> << >>,
     relationships |-> << >>]

NoResponse ==
    [endpoint |-> "none", status |-> 0]

\* the state of the programs before any of them has run
InitPrograms ==
    /\ in_transaction = FALSE
    /\ pc = "idle"
    /\ excel_files = << >>
    /\ file_index = 0
    /\ cprt_data = EmptyData
    /\ counts = ZeroCounts
    /\ logs = NoLogs
    /\ total_stats = ZeroCounts
    /\ outcome = << >>
    /\ response = NoResponse
    /\ exported = << >>
    /\ imports = 0
    /\ bulks = 0
    /\ file_shape = [num_sheets |-> 0, header |-> {}]
    /\ file_type = [type |-> "none"]
    /\ mapped = [called |-> FALSE]
    /\ enhancer =
           [pc |-> "off", element_cache |-> << >>, mapping_files |-> << >>,
            file |-> 0, rows |-> << >>, index |-> 0, source_texts |-> << >>,
            dest_texts |-> << >>, enhanced_files |-> << >>,
            \* the file written by the call of enhance_mapping_file at
            \* hand or, between two calls, by the one that has returned
            written |-> [path |-> "None"],
            \* the lookups of the file at hand that returned the not-found
            \* or the lookup-error dictionary
            unresolved |-> [source_texts |-> 0, dest_texts |-> 0]]
    /\ lookup = [operation |-> "none"]
    /\ answered = << >>
    /\ removed = {}
    /\ creations = 0
    /\ requests = [i \in Clients |-> NoRequest]
    /\ lock = 0

Init ==
    /\ store = EmptyDb
    /\ conn = EmptyDb
    /\ schema = TableNames
    /\ ddl = NoDdl
    /\ InitPrograms

detect_vars == << file_shape, file_type, mapped >>

\* the state of the mapping enhancement run
enhance_vars == << enhancer, lookup, answered >>

\* the state of the tools and requests that run beside the import tool, the
\* bulk-create and export requests and the format detection
\* the state of two bulk-create requests served at the same time
race_vars == << requests, lock >>

\* the tables of the database file and the last table creation
table_vars == << schema, ddl >>

ext_vars == << enhance_vars, removed, creations, race_vars, table_vars >>

api_vars == << response, exported, bulks, detect_vars, ext_vars >>

(***************************************************************************)
(* insert_cprt_data.py: main().                                            *)
(***************************************************************************)
\* excel_files = list(cprt_dir.glob("*.xlsx")); total_stats = zeros
StartBatchWithin(limit) ==
    /\ pc = "idle"
    /\ imports < limit
    \* the files the directory holds: a file occurs once
    /\ \E files \in UNION {{f \in [1..k -> WorkbookNames] :
                                \A i, j \in 1..k : i # j => f[i] # f[j]} :
                            k \in 1..(limit - imports)} :
          /\ excel_files' = files
          /\ imports' = imports + Len(files)
          \* the file "export" is the spreadsheet just downloaded
          /\ IF "export" \in {files[i] : i \in 1..Len(files)}
             THEN /\ response.endpoint = "export"
                  /\ response.status = 200
                  /\ response.format = "excel"
                  /\ exported' = response.sheets
             ELSE exported' = << >>
    /\ response' = NoResponse
    /\ file_index' = 1
    /\ total_stats' = ZeroCounts
    /\ outcome' = << >>
    /\ cprt_data' = EmptyData
    /\ counts' = ZeroCounts
    /\ logs' = NoLogs
    /\ pc' = "begin"
    /\ UNCHANGED << store, conn, in_transaction, bulks, detect_vars,
                    ext_vars >>

StartBatch ==
    /\ pc = "idle"
    /\ StartBatchWithin(MaxImports)

\* the import tool run on its own, with no API request being served
StartRun ==
    /\ pc = "idle"
    /\ StartBatchWithin(MaxFiles)

\* conn.execute("BEGIN TRANSACTION")
BeginTransaction ==
    /\ pc = "begin"
    /\ in_transaction' = TRUE
    /\ conn' = store
    /\ cprt_data' = EmptyData
    /\ counts' = ZeroCounts
    /\ logs' = NoLogs
    /\ pc' = "process"
    /\ UNCHANGED << store, excel_files, file_index, total_stats, outcome,
                    imports, api_vars >>

\* cprt_data = process_cprt_file(str(file_path))
ProcessFile ==
    /\ pc = "process"
    /\ LET r == process_cprt_file(Workbook(excel_files[file_index], exported))
       IN  /\ cprt_data' = r.data
           /\ pc' = IF r.raised THEN "except" ELSE "documents"
    /\ UNCHANGED << store, conn, in_transaction, excel_files, file_index,
                    counts, logs, total_stats, outcome, imports, api_vars >>

\* one insert step of the file's transaction
InsertStep(step, r, next) ==
    /\ pc = step
    /\ conn' = r.db
    /\ counts' = [counts EXCEPT ![step] = r.insert_count]
    /\ logs' = [logs EXCEPT ![step] = r.log]
    /\ pc' = IF r.raised THEN "except" ELSE next
    /\ UNCHANGED << store, in_transaction, excel_files, file_index, cprt_data,
                    total_stats, outcome, imports, api_vars >>

\* a loop body that goes from the documents to the relationship types
InsertDocuments_ThenTypes ==
    /\ pc = "documents"
    /\ InsertStep("documents", insert_documents(conn, cprt_data.documents),
                  "relationship_types")

InsertDocuments ==
    /\ pc = "documents"
    /\ InsertStep("documents", insert_documents(conn, cprt_data.documents),
                  "elements")

InsertElements ==
    /\ pc = "elements"
    /\ InsertStep("elements", insert_elements(conn, cprt_data.elements),
                  "relationship_types")

InsertRelationshipTypes ==
    /\ pc = "relationship_types"
    /\ InsertStep("relationship_types",
                  insert_relationship_types(conn,
                                            cprt_data.relationship_types),
                  "relationships")

InsertRelationships ==
    /\ pc = "relationships"
    /\ InsertStep("relationships",
                  insert_relationships(conn, cprt_data.relationships),
                  "commit")

\* a loop that ends with the file at hand
NextFile_Break ==
    /\ file_index' = file_index + 1
    /\ pc' = "summary"

\* the loop goes on to the next file, or ends
NextFile ==
    /\ file_index' = file_index + 1
    /\ pc' = IF file_index < Len(excel_files) THEN "begin" ELSE "summary"

\* a loop body that commits the file and leaves the totals as they were
Commit_NoTotals ==
    /\ pc = "commit"
    /\ store' = conn
    /\ in_transaction' = FALSE
    /\ outcome' = Append(outcome, "committed")
    /\ NextFile
    /\ UNCHANGED << conn, excel_files, cprt_data, counts, logs, total_stats,
                    imports, api_vars >>

\* conn.commit() and the update of the totals
Commit ==
    /\ pc = "commit"
    /\ store' = conn
    /\ in_transaction' = FALSE
    /\ total_stats' = [st \in Steps |-> total_stats[st] + counts[st]]
    /\ outcome' = Append(outcome, "committed")
    /\ NextFile
    /\ UNCHANGED << conn, excel_files, cprt_data, counts, logs, imports,
                    api_vars >>

\* a handler that keeps what the file's steps had written
Rollback_KeepsRows ==
    /\ pc = "except"
    /\ store' = conn
    /\ in_transaction' = FALSE
    /\ outcome' = Append(outcome, "rolled_back")
    /\ NextFile
    /\ UNCHANGED << conn, excel_files, cprt_data, counts, logs, total_stats,
                    imports, api_vars >>

\* except Exception: conn.rollback(); continue
Rollback ==
    /\ pc = "except"
    /\ conn' = store
    /\ in_transaction' = FALSE
    /\ outcome' = Append(outcome, "rolled_back")
    /\ NextFile
    /\ UNCHANGED << store, excel_files, cprt_data, counts, logs, total_stats,
                    imports, api_vars >>

\* the summary is logged and the connection closed
Summary ==
    /\ pc = "summary"
    /\ pc' = "idle"
    /\ UNCHANGED << store, conn, in_transaction, excel_files, file_index,
                    cprt_data, counts, logs, total_stats, outcome, imports,
                    api_vars >>

\* the body of the loop of main() for one file, from BEGIN TRANSACTION to
\* the commit or the rollback: the database it leaves and how it ended
ImportFile(db, workbook) ==
    LET p == process_cprt_file(workbook)
        d == insert_documents(db, p.data.documents)
        e == insert_elements(d.db, p.data.elements)
        t == insert_relationship_types(e.db, p.data.relationship_types)
        r == insert_relationships(t.db, p.data.relationships)
    IN  IF p.raised \/ d.raised \/ e.raised \/ t.raised \/ r.raised
        THEN [db |-> db, outcome |-> "rolled_back"]
        ELSE [db |-> r.db, outcome |-> "committed"]

(***************************************************************************)
(* main.py: requests.  A request runs on a connection of its own and sees  *)
(* the committed store; requests are served between the runs of the import *)
(* tool.                                                                   *)
(***************************************************************************)
import_vars ==
    << in_transaction, pc, excel_files, file_index, cprt_data, counts, logs,
       total_stats, outcome, imports >>

BulkCreate ==
    /\ pc = "idle"
    /\ bulks < MaxBulk
    /\ \E relationships_data \in BulkRequests :
          LET r == create_bulk_relationships(store, relationships_data)
          IN  /\ store' = r.db
              /\ conn' = r.db
              /\ response' =
                     [endpoint |-> "bulk", status |-> r.status,
                      request |-> relationships_data,
                      success_count |-> r.success_count,
                      total_attempted |-> r.total_attempted]
    /\ bulks' = bulks + 1
    /\ UNCHANGED << exported, import_vars, detect_vars, ext_vars >>

\* a handler without the check of relationships_df.empty: the lookup of a
\* column of the empty frame raises KeyError
Export_NoCheck ==
    /\ pc = "idle"
    /\ \E format \in {"excel", "csv"}, provenance_docs \in ExportFilters :
          LET r == export_relationships(store, format, provenance_docs)
          IN  /\ response' =
                     [endpoint |-> "export",
                      status |-> IF r.status = 404 THEN 500 ELSE r.status,
                      format |-> format, provenance_docs |-> provenance_docs,
                      sheets |-> r.sheets, db |-> store]
    /\ UNCHANGED << store, conn, exported, bulks, import_vars, detect_vars,
                    ext_vars >>

Export ==
    /\ pc = "idle"
    /\ \E format \in {"excel", "csv"}, provenance_docs \in ExportFilters :
          LET r == export_relationships(store, format, provenance_docs)
          IN  /\ response' =
                     [endpoint |-> "export", status |-> r.status,
                      format |-> format, provenance_docs |-> provenance_docs,
                      \* with the store the query was run on
                      sheets |-> r.sheets, db |-> store]
    /\ UNCHANGED << store, conn, exported, bulks, import_vars, detect_vars,
                    ext_vars >>

(***************************************************************************)
(* excel_processor.py: main() detects the type of one file after another.  *)
(***************************************************************************)
DetectFile ==
    \E num_sheets \in 1..MaxSheets, header \in SUBSET HeaderCells :
        /\ file_shape' = [num_sheets |-> num_sheets, header |-> header]
        /\ file_type' = detect_excel_file_type(num_sheets, header)
        /\ UNCHANGED << mapped, store, conn, import_vars, response, exported,
                        bulks, ext_vars >>

SpecDetect == Init /\ [][DetectFile]_vars

\* mapped_data = map_dictionaries(data, elements_mapping), on rows that
\* hold any of the columns and on the mappings of main(), the empty mapping
\* and a mapping of two fields to one column
MapRows ==
    LET columns == {"Focal Document Element",
                    "Focal Document Element Description"}
        rows == UNION {[k -> {"AC-01", "AC-02"}] : k \in SUBSET columns}
        mappings ==
            { << << "element_identifier", "Focal Document Element" >>,
                 << "text", "Focal Document Element Description" >>,
                 << "element_type", "Security Control Baseline" >> >>,
              << << "element_identifier", "Focal Document Element" >>,
                 << "text", "Focal Document Element Description" >> >>,
              << << "element_identifier", "Focal Document Element" >>,
                 << "title", "Focal Document Element" >> >>,
              << >> }
    IN  \E data \in UNION {[1..n -> rows] : n \in 0..MaxRows},
           mapping \in mappings :
            /\ mapped' = [called |-> TRUE, data |-> data, mapping |-> mapping,
                          result |-> map_dictionaries(data, mapping)]
            /\ UNCHANGED << file_shape, file_type, store, conn, import_vars,
                            response, exported, bulks, ext_vars >>

SpecMap == Init /\ [][MapRows]_vars

Next ==
    \/ StartBatch
    \/ BeginTransaction
    \/ ProcessFile
    \/ InsertDocuments
    \/ InsertElements
    \/ InsertRelationshipTypes
    \/ InsertRelationships
    \/ Commit
    \/ Rollback
    \/ Summary
    \/ BulkCreate
    \/ Export

Spec == Init /\ [][Next]_vars

\* main() of insert_cprt_data.py is a sequential program: once started, a
\* batch keeps taking steps
RunBatch ==
    \/ BeginTransaction
    \/ ProcessFile
    \/ InsertDocuments
    \/ InsertElements
    \/ InsertRelationshipTypes
    \/ InsertRelationships
    \/ Commit
    \/ Rollback
    \/ Summary

SpecImport ==
    /\ Init
    /\ [][\/ StartRun
          \/ RunBatch]_vars
    /\ WF_vars(RunBatch)

(***************************************************************************)
(* enhance_mappings.py: main(), process_all_mappings and                   *)
(* enhance_mapping_file, one step per store-reading call.  The import tool *)
(* may run between two steps: the enhancer reads the committed store.      *)
(***************************************************************************)
\* a run of the import tool on one of the files named, as the other
\* programs see it
ImportFrom(names) ==
    /\ pc = "idle"
    /\ lock = 0
    /\ schema = TableNames
    /\ imports < MaxImports
    /\ \E name \in names :
          LET r == ImportFile(store, Workbook(name, << >>))
          IN  /\ store' = r.db
              /\ conn' = r.db
    /\ imports' = imports + 1
    /\ UNCHANGED << in_transaction, pc, excel_files, file_index, cprt_data,
                    counts, logs, total_stats, outcome, api_vars >>

ImportOne ==
    /\ pc = "idle"
    /\ ImportFrom(ToolRuns)

\* a run of the import tool on a file of documents
ImportDocuments ==
    /\ pc = "idle"
    /\ ImportFrom({"base", "renamed"})

\* the loop of process_all_mappings goes on to the next file, or ends
NextMapping(e, result) ==
    [e EXCEPT !.enhanced_files =
                  Append(@, IF result.path = "None" THEN "None" ELSE "saved"),
              !.written = result,
              !.file = @ + 1,
              !.rows = << >>, !.index = 0,
              !.source_texts = << >>, !.dest_texts = << >>,
              !.unresolved = [source_texts |-> 0, dest_texts |-> 0],
              !.pc = IF e.file < Len(e.mapping_files) THEN "file" ELSE "done"]

\* a batch that takes every Excel file of the directory as a mapping file
StartEnhancer_NoFilter ==
    /\ enhancer.pc = "off"
    /\ \E fault \in StoreFaults, excel_files_found \in MappingBatches :
          LET r == validate_database_structure(fault)
          IN  /\ lookup' = [operation |-> "validate", fault |-> fault,
                            raised |-> r.raised, opened |-> r.opened,
                            closed |-> r.closed]
              /\ enhancer' =
                     IF r.raised # "none"
                     THEN [enhancer EXCEPT !.pc = "failed"]
                     ELSE IF ~ r.value
                     THEN [enhancer EXCEPT !.pc = "done"]
                     ELSE [enhancer EXCEPT !.pc = "file",
                                           !.mapping_files =
                                               excel_files_found,
                                           !.file = 1]
    /\ UNCHANGED << store, conn, import_vars, response, exported, bulks,
                    detect_vars, removed, creations, race_vars,
                    table_vars, answered >>

\* main(): enhancer = MappingEnhancer(); validate_database_structure();
\* process_all_mappings: the Excel files of the directory whose name does
\* not hold '_enhanced_' are the mapping files; with none, the run ends
StartEnhancer ==
    /\ enhancer.pc = "off"
    /\ \E fault \in StoreFaults, excel_files_found \in MappingBatches :
          LET r == validate_database_structure(fault)
              mapping_files ==
                  SelectSeq(excel_files_found,
                            LAMBDA f : ~ Contains(f, "_enhanced_"))
          IN  /\ lookup' = [operation |-> "validate", fault |-> fault,
                            raised |-> r.raised, opened |-> r.opened,
                            closed |-> r.closed]
              /\ enhancer' =
                     IF r.raised # "none"
                     THEN [enhancer EXCEPT !.pc = "failed"]
                     ELSE IF ~ r.value \/ mapping_files = << >>
                     THEN [enhancer EXCEPT !.pc = "done"]
                     ELSE [enhancer EXCEPT !.pc = "file",
                                           !.mapping_files = mapping_files,
                                           !.file = 1]
    /\ UNCHANGED << store, conn, import_vars, response, exported, bulks,
                    detect_vars, removed, creations, race_vars,
                    table_vars, answered >>

\* enhance_mapping_file up to the loop over the rows
EnhanceFile ==
    /\ enhancer.pc = "file"
    /\ LET f == MappingFile(enhancer.mapping_files[enhancer.file])
           required_columns ==
               {"source_element", "source_document", "dest_element",
                "dest_document"}
       IN  enhancer' =
               IF \/ ~ f.sheet
                  \/ ~ (required_columns
                            \subseteq {f.columns[i] : i \in 1..Len(f.columns)})
               THEN NextMapping(enhancer, [path |-> "None"])
               ELSE [enhancer EXCEPT !.rows = f.rows, !.index = 1,
                                     !.written = [path |-> "None"],
                                     !.pc = IF f.rows = << >> THEN "save"
                                            ELSE "source"]
    /\ UNCHANGED << store, conn, import_vars, response, exported, bulks,
                    detect_vars, removed, creations, race_vars,
                    table_vars, lookup, answered >>

\* one call of lookup_element_text by enhance_mapping_file: an exception
\* that leaves the call is caught by the handler of enhance_mapping_file,
\* which gives the file up
LookupStep(document_id, element_id, fault, texts, next) ==
    LET r == lookup_element_text(enhancer.element_cache, store, fault,
                                 document_id, element_id)
        pair == << document_id, element_id >>
    IN  /\ lookup' = [operation |-> "lookup", fault |-> fault,
                      document_id |-> document_id,
                      element_id |-> element_id,
                      has_row |-> ElementsOf(store, document_id,
                                             element_id) # {},
                      raised |-> r.raised, value |-> r.value,
                      queried |-> r.queried, opened |-> r.opened,
                      closed |-> r.closed]
        /\ enhancer' =
               IF r.raised # "none"
               THEN NextMapping(enhancer, [path |-> "None"])
               ELSE [enhancer EXCEPT !.element_cache = r.element_cache,
                                     ![texts] = Append(@, r.value.text),
                                     !.unresolved[texts] =
                                         IF r.value.title
                                                \in {"Element not found",
                                                     "Lookup error"}
                                         THEN @ + 1 ELSE @,
                                     !.index = IF next = "dest" THEN @
                                               ELSE @ + 1,
                                     !.pc = IF next = "dest" THEN "dest"
                                            ELSE IF enhancer.index
                                                      < Len(enhancer.rows)
                                            THEN "source" ELSE "save"]
        /\ answered' =
               IF /\ r.raised = "none"
                  /\ r.value # LookupError
                  /\ pair \notin DOMAIN answered
               THEN (pair :> r.value) @@ answered
               ELSE answered
        /\ UNCHANGED << store, conn, import_vars, response, exported, bulks,
                        detect_vars, removed, creations, race_vars,
                    table_vars >>

LookupSource ==
    /\ enhancer.pc = "source"
    /\ \E fault \in StoreFaults :
          LookupStep(enhancer.rows[enhancer.index].source_document,
                     enhancer.rows[enhancer.index].source_element,
                     fault, "source_texts", "dest")

LookupDest ==
    /\ enhancer.pc = "dest"
    /\ \E fault \in StoreFaults :
          LookupStep(enhancer.rows[enhancer.index].dest_document,
                     enhancer.rows[enhancer.index].dest_element,
                     fault, "dest_texts", "source")

\* the two columns are inserted, the file is saved under a name of its
\* own beside the input file, and the summary is logged; an exception
\* raised on the way is caught by the handler of enhance_mapping_file
SaveEnhanced ==
    /\ enhancer.pc = "save"
    /\ \E timestamp \in Timestamps :
          LET stem == enhancer.mapping_files[enhancer.file]
              f == MappingFile(stem)
              df == EnhancedColumns(f.columns)
          IN  enhancer' =
                  NextMapping(enhancer,
                      IF df.raised THEN [path |-> "None"]
                      ELSE [path |-> stem \o "_enhanced_" \o timestamp
                                         \o ".xlsx",
                            stem |-> stem,
                            columns |-> df.columns,
                            rows |->
                                [i \in 1..Len(f.rows) |->
                                    [source_text |->
                                         enhancer.source_texts[i],
                                     dest_text |-> enhancer.dest_texts[i]]
                                        @@ f.rows[i]],
                            summary |->
                                print_enhancement_summary(
                                    enhancer.source_texts,
                                    enhancer.dest_texts),
                            unresolved |-> enhancer.unresolved])
    /\ UNCHANGED << store, conn, import_vars, response, exported, bulks,
                    detect_vars, removed, creations, race_vars,
                    table_vars, lookup, answered >>

SpecResolve ==
    /\ Init
    /\ [][\/ ImportOne
          \/ StartEnhancer
          \/ EnhanceFile
          \/ LookupSource
          \/ LookupDest
          \/ SaveEnhanced]_vars

\* GET /getDocument for an identifier that names a document or names none
GetDocument ==
    /\ pc = "idle"
    /\ \E document_identifier \in {"D1", "D2", "P", "D9"} :
          LET r == get_document(store, document_identifier)
          IN  response' =
                  [endpoint |-> "getDocument", status |-> r.status,
                   document_identifier |-> document_identifier,
                   \* with the store the queries were run on
                   bundle |-> r.bundle, db |-> store]
    /\ UNCHANGED << store, conn, exported, bulks, import_vars, detect_vars,
                    ext_vars >>

\* POST /relationships with identifiers that resolve, and with a source, a
\* destination or a type that does not
CreateRelationship ==
    /\ pc = "idle"
    /\ \E relationship \in
              { [source_element_identifier |-> p[1],
                 source_doc_identifier |-> p[2],
                 dest_element_identifier |-> p[3],
                 dest_doc_identifier |-> p[4],
                 relationship_identifier |-> p[5]] :
                p \in { << "E1", "D1", "E3", "D2", "related_to" >>,
                        << "E9", "D1", "E3", "D2", "related_to" >>,
                        << "E1", "D2", "E3", "D2", "related_to" >>,
                        << "E1", "D1", "E3", "D9", "related_to" >>,
                        << "E1", "D1", "E3", "D2", "rel9" >> } } :
          LET r == create_relationship(store, relationship)
          IN  /\ store' = r.db
              /\ conn' = r.db
              /\ response' =
                     [endpoint |-> "relationship", status |-> r.status,
                      request |-> relationship,
                      source_element_id |-> r.source_element_id,
                      dest_element_id |-> r.dest_element_id,
                      relationship_type_id |-> r.relationship_type_id,
                      \* with the store the queries were run on
                      db |-> store]
    /\ UNCHANGED << exported, bulks, import_vars, detect_vars, ext_vars >>

\* the API serving bulk-create, export, retrieval and validation requests
\* between runs of the import tool
SpecExport ==
    /\ Init
    /\ [][\/ ImportOne
          \/ BulkCreate
          \/ Export
          \/ GetDocument
          \/ CreateRelationship]_vars

(***************************************************************************)
(* Deletes: a row of documents, elements or relationship_types is deleted  *)
(* over a connection opened the way get_db_connection opens it.            *)
(***************************************************************************)
MaxDeletes == 2

delete_vars ==
    << import_vars, response, exported, bulks, detect_vars, enhance_vars,
       creations, race_vars, table_vars >>

\* DELETE FROM documents WHERE document_id = ?: the ON DELETE CASCADE
\* clauses of elements and relationships act when the connection enforces
\* foreign keys
DeleteDocumentRow ==
    /\ pc = "idle"
    /\ Cardinality(removed) < MaxDeletes
    /\ \E d \in store.documents :
          LET gone == {e.element_id :
                          e \in {x \in store.elements :
                                    x.document_id = d.document_id}}
              documents == store.documents \ {d}
          IN  /\ store' =
                     IF foreign_keys
                     THEN [store EXCEPT
                              !.documents = documents,
                              !.elements =
                                  {e \in @ : e.element_id \notin gone},
                              !.relationships =
                                  {r \in @ :
                                      /\ r.prov_doc_id # d.document_id
                                      /\ r.source_id \notin gone
                                      /\ r.dest_id \notin gone}]
                     ELSE [store EXCEPT !.documents = documents]
              /\ removed' = removed \cup {<< "documents", d.document_id >>}
    /\ conn' = store'
    /\ UNCHANGED delete_vars

\* DELETE FROM elements WHERE element_id = ?
DeleteElementRow ==
    /\ pc = "idle"
    /\ Cardinality(removed) < MaxDeletes
    /\ \E e \in store.elements :
          /\ store' =
                 IF foreign_keys
                 THEN [store EXCEPT
                          !.elements = @ \ {e},
                          !.relationships =
                              {r \in @ : /\ r.source_id # e.element_id
                                         /\ r.dest_id # e.element_id}]
                 ELSE [store EXCEPT !.elements = @ \ {e}]
          /\ removed' = removed \cup {<< "elements", e.element_id >>}
    /\ conn' = store'
    /\ UNCHANGED delete_vars

\* DELETE FROM relationship_types WHERE type_id = ?
DeleteRelationshipTypeRow ==
    /\ pc = "idle"
    /\ Cardinality(removed) < MaxDeletes
    /\ \E t \in store.relationship_types :
          /\ store' =
                 IF foreign_keys
                 THEN [store EXCEPT
                          !.relationship_types = @ \ {t},
                          !.relationships =
                              {r \in @ : r.relationship_type # t.type_id}]
                 ELSE [store EXCEPT !.relationship_types = @ \ {t}]
          /\ removed' = removed \cup {<< "relationship_types", t.type_id >>}
    /\ conn' = store'
    /\ UNCHANGED delete_vars

SpecDelete ==
    /\ Init
    /\ [][\/ ImportOne
          \/ DeleteDocumentRow
          \/ DeleteElementRow
          \/ DeleteRelationshipTypeRow]_vars

(***************************************************************************)
(* main.py: the requests that create and list documents, served between    *)
(* the runs of the import tool and the bulk-create requests.               *)
(***************************************************************************)
CreateProvenanceDocument ==
    /\ pc = "idle"
    /\ creations < MaxCreations
    /\ \E doc_info \in ProvenanceRequests, timestamp \in Timestamps :
          LET r == create_provenance_document(store, doc_info, timestamp)
          IN  /\ store' = r.db
              /\ conn' = r.db
              /\ response' =
                     [endpoint |-> "provenance", status |-> r.status,
                      request |-> doc_info,
                      provenance_doc_identifier |->
                          r.provenance_doc_identifier]
    /\ creations' = creations + 1
    /\ UNCHANGED << exported, bulks, import_vars, detect_vars, enhance_vars,
                    removed, race_vars, table_vars >>

GetDocuments ==
    /\ pc = "idle"
    /\ response' = [endpoint |-> "documents", status |-> 200,
                    documents |-> get_documents(store)]
    /\ UNCHANGED << store, conn, exported, bulks, import_vars, detect_vars,
                    ext_vars >>

SpecApi ==
    /\ Init
    /\ [][\/ ImportDocuments
          \/ BulkCreate
          \/ CreateProvenanceDocument
          \/ GetDocuments]_vars

(***************************************************************************)
(* main.py: two bulk-create requests served by two processes, one          *)
(* statement at a time.  The first INSERT of a request begins a            *)
(* transaction and takes the write lock of the database file, which the    *)
(* request keeps until its commit or until its connection is closed; an    *)
(* INSERT that finds the lock taken waits, and raises                      *)
(* sqlite3.OperationalError when the timeout of sqlite3.connect expires.   *)
(***************************************************************************)
\* relationships_data is read and found complete; the loop starts
RaceBegin(i) ==
    /\ requests[i].pc = "idle"
    /\ \E relationships_data \in RaceRequests :
          requests' = [requests EXCEPT
              ![i] = [NoRequest EXCEPT !.pc = "loop",
                                       !.body = relationships_data,
                                       !.index = 1]]
    /\ UNCHANGED << store, conn, lock, import_vars, response, exported,
                    bulks, detect_vars, enhance_vars, removed, creations,
                    table_vars >>

\* one pass of the loop: the INSERT takes or has the lock
RaceInsert(i) ==
    LET q == requests[i]
        r == bulk_loop([db |-> IF lock = i THEN q.db ELSE store,
                        success_count |-> q.success_count,
                        raised |-> FALSE],
                       q.body.provenance_doc_id,
                       << q.body.relationships[q.index] >>)
    IN  /\ q.pc = "loop"
        /\ q.index <= Len(q.body.relationships)
        /\ lock \in {0, i}
        /\ requests' = [requests EXCEPT
               ![i] = IF r.raised
                      THEN [q EXCEPT !.pc = "done", !.status = 500]
                      ELSE [q EXCEPT !.db = r.db,
                                     !.success_count = r.success_count,
                                     !.index = @ + 1]]
        /\ lock' = IF r.raised THEN 0 ELSE i
        /\ UNCHANGED << store, conn, import_vars, response, exported, bulks,
                        detect_vars, enhance_vars, removed, creations,
                    table_vars >>

\* the INSERT has waited for the lock until the timeout:
\* sqlite3.OperationalError is not a sqlite3.IntegrityError and leaves the
\* handler, the connection is closed
RaceBusy(i) ==
    /\ requests[i].pc = "loop"
    /\ requests[i].index <= Len(requests[i].body.relationships)
    /\ lock \notin {0, i}
    /\ requests' = [requests EXCEPT ![i].pc = "done", ![i].status = 500]
    /\ UNCHANGED << store, conn, lock, import_vars, response, exported,
                    bulks, detect_vars, enhance_vars, removed, creations,
                    table_vars >>

\* conn.commit() and the response
RaceCommit(i) ==
    /\ requests[i].pc = "loop"
    /\ requests[i].index > Len(requests[i].body.relationships)
    /\ lock = i
    /\ store' = requests[i].db
    /\ conn' = requests[i].db
    /\ lock' = 0
    /\ requests' = [requests EXCEPT ![i].pc = "done", ![i].status = 200]
    /\ UNCHANGED << import_vars, response, exported, bulks, detect_vars,
                    enhance_vars, removed, creations, table_vars >>

SpecRace ==
    /\ Init
    /\ [][\/ ImportOne
          \/ \E i \in Clients : RaceBegin(i)
          \/ \E i \in Clients : RaceInsert(i)
          \/ \E i \in Clients : RaceBusy(i)
          \/ \E i \in Clients : RaceCommit(i)]_vars

(***************************************************************************)
(* insert_cprt_data.py: main() creates the tables on a database file that  *)
(* holds any of them, then imports.                                        *)
(***************************************************************************)
\* the database file holds any of the tables, and in them no row or the
\* rows of an import
InitTables ==
    /\ schema \in SUBSET TableNames
    /\ \E db \in {EmptyDb, ImportFile(EmptyDb, Workbook("base", << >>)).db} :
          store =
              [db EXCEPT
                  !.documents = IF "documents" \in schema THEN @ ELSE {},
                  !.elements = IF "elements" \in schema THEN @ ELSE {},
                  !.relationship_types =
                      IF "relationship_types" \in schema THEN @ ELSE {},
                  !.relationships =
                      IF "relationships" \in schema THEN @ ELSE {}]
    /\ conn = store
    /\ ddl = NoDdl
    /\ InitPrograms

CreateTables ==
    /\ pc = "idle"
    /\ lock = 0
    /\ LET r == create_tables_if_not_exist(schema, store)
       IN  /\ schema' = r.tables
           /\ store' = r.db
           /\ conn' = r.db
           /\ ddl' = [raised |-> r.raised, log |-> r.log]
    /\ UNCHANGED << import_vars, response, exported, bulks, detect_vars,
                    enhance_vars, removed, creations, race_vars >>

SpecTables ==
    /\ InitTables
    /\ [][\/ CreateTables
          \/ ImportOne]_vars

(***************************************************************************)
(* Properties.                                                             *)
(***************************************************************************)
Tables(db) ==
    << db.documents, db.elements, db.relationship_types, db.relationships >>

\* C1: in every reachable state no two rows of the relationships table
\* have the same 4-tuple (source element, destination element, provenance
\* document, relationship type).
C1_UniqueRelationshipTuples ==
    \A r1, r2 \in store.relationships : RelKey(r1) = RelKey(r2) => r1 = r2

\* C2: in every reachable state every relationship row's source and
\* destination are existing elements, its provenance an existing document
\* and its type an existing relationship type.
C2_ReferentialIntegrity ==
    \A r \in store.relationships :
        /\ ElementsById(store, r.source_id) # {}
        /\ ElementsById(store, r.dest_id) # {}
        /\ DocumentsById(store, r.prov_doc_id) # {}
        /\ TypesById(store, r.relationship_type) # {}

\* an exception escaped one of the four insert steps of the current file
RaisedInStep ==
    /\ pc = "except"
    /\ ~ process_cprt_file(Workbook(excel_files[file_index], exported)).raised

\* C3 as claimed: if any exception is raised during a file's insert
\* sequence, then once it has been handled the store holds exactly the
\* rows it held before that file's import began.
C3_AnyExceptionRollsBack ==
    [][(/\ pc \in {"commit", "except"}
        /\ \/ RaisedInStep
           \/ \E st \in Steps : \E i \in 1..Len(logs[st]) :
                 logs[st][i].level = "error")
          => Tables(store') = Tables(store)]_vars

\* C3 as amended: if an exception escapes a step of a file's insert
\* sequence, then once it has been handled the store holds exactly the
\* rows it held before that file's import began and no transaction is
\* left open.
C3_EscapedExceptionRollsBack ==
    [][RaisedInStep
          => (Tables(store') = Tables(store) /\ ~ in_transaction'
              /\ conn' = store')]_vars

\* a file that had inserted documents when a later row raised has been
\* rolled back, and the store holds none of them
C3_Witness ==
    /\ outcome # << >>
    /\ outcome[Len(outcome)] = "rolled_back"
    /\ counts.documents > 0
    /\ store.documents = {}
    /\ ~ in_transaction

\* C4: when the import of a file of a batch fails, the rows committed
\* before are still in the store and the batch goes on with the next file;
\* each file of a batch eventually ends committed or rolled back.
C4_BatchGoesOn ==
    /\ [][/\ \A i \in 1..4 : Tables(store)[i] \subseteq Tables(store')[i]
          /\ pc = "except"
                => /\ store' = store
                   /\ file_index < Len(excel_files)
                          => (pc' = "begin" /\ file_index' = file_index + 1)
         ]_vars
    /\ (pc # "idle")
          ~> (/\ pc = "summary"
              /\ Len(outcome) = Len(excel_files)
              /\ \A i \in 1..Len(excel_files) :
                    outcome[i] \in {"committed", "rolled_back"})

\* a batch of two files has ended: the first failed after it had inserted
\* documents, the second was processed and is committed
C4_Witness ==
    /\ pc = "summary"
    /\ Len(excel_files) = 2
    /\ excel_files[1] \in OverflowNames
    /\ outcome = << "rolled_back", "committed" >>
    /\ store.documents # {}

\* C5: importing a file a second time into a store that holds its import
\* leaves the row sets of the four tables unchanged: so it is for every
\* file the batch has committed so far.
C5_ImportIdempotent ==
    pc \in {"begin", "summary"}
        => \A i \in 1..Len(outcome) :
              outcome[i] = "committed"
                 => LET again == ImportFile(store,
                                    Workbook(excel_files[i], exported))
                    IN  /\ again.outcome = "committed"
                        /\ Tables(again.db) = Tables(store)

\* C6: the relationship insert step reports the number of rows it added
\* (1 the first time a tuple is inserted, 0 when the identical tuple is
\* inserted again), and leaves the rows stored before unchanged.
C6_CountIsRowsAdded ==
    pc = "commit"
        => /\ counts.relationships
                  = Cardinality(conn.relationships \ store.relationships)
           /\ store.relationships \subseteq conn.relationships

\* the references of a relationship row that name no row of the database
ElementNamed(db, doc_identifier, element_identifier) ==
    \E e \in db.elements, d \in db.documents :
        /\ e.document_id = d.document_id
        /\ d.doc_identifier = doc_identifier
        /\ e.element_identifier = element_identifier

UnresolvedRefs(db, rel) ==
    {ref \in {"source", "dest", "provenance doc", "relationship type"} :
        \/ /\ ref = "source"
           /\ ~ ElementNamed(db, Get(rel, "source_doc_identifier", ""),
                             Get(rel, "source_element_identifier", ""))
        \/ /\ ref = "dest"
           /\ ~ ElementNamed(db, Get(rel, "dest_doc_identifier", ""),
                             Get(rel, "dest_element_identifier", ""))
        \/ /\ ref = "provenance doc"
           /\ ~ \E d \in db.documents :
                  d.doc_identifier
                      = Get(rel, "provenance_doc_identifier", "")
        \/ /\ ref = "relationship type"
           /\ ~ \E t \in db.relationship_types :
                  t.relationship_identifier
                      = Get(rel, "relationship_identifier", "")}

\* the references a line of the log names
NamedRefs(line) == {line.missing[k][1] : k \in 1..Len(line.missing)}

\* C7: a relationship row of which a non-empty set of references fails to
\* resolve is not inserted and not counted, its diagnostic names exactly
\* the references of that set, and the rows after it are processed.
C7_SkipNamesMissingRefs ==
    pc = "commit"
        => LET rows == cprt_data.relationships
               log == logs.relationships
           IN  /\ Len(log) = Len(rows)
               /\ \A i \in 1..Len(rows) :
                     LET u == UnresolvedRefs(conn, rows[i])
                     IN  IF u # {}
                         THEN /\ log[i].level = "warning"
                              /\ NamedRefs(log[i]) = u
                              /\ Len(log[i].missing) = Cardinality(u)
                         ELSE log[i].level # "warning"
               /\ counts.relationships
                      = Cardinality({i \in 1..Len(rows) :
                                        log[i].level = "debug"})
               /\ \A r \in conn.relationships \ store.relationships :
                     \E i \in 1..Len(rows) :
                        /\ UnresolvedRefs(conn, rows[i]) = {}
                        /\ \E e \in ElementsById(conn, r.source_id) :
                              e.element_identifier
                                  = rows[i].source_element_identifier
                        /\ \E e \in ElementsById(conn, r.dest_id) :
                              e.element_identifier
                                  = rows[i].dest_element_identifier
                        /\ \E d \in DocumentsById(conn, r.prov_doc_id) :
                              d.doc_identifier
                                  = rows[i].provenance_doc_identifier
                        /\ \E t \in TypesById(conn, r.relationship_type) :
                              t.relationship_identifier
                                  = rows[i].relationship_identifier

\* the workbook "skips" has gone through the relationships step on a store
\* that holds the rows its resolvable references name: all fifteen
\* non-empty sets of references have been named, one of them is the
\* provenance document alone, and the row after them has been executed
C7_Witness ==
    /\ pc = "commit"
    /\ excel_files[file_index] = "skips"
    /\ Len(logs.relationships) = 16
    /\ Cardinality({NamedRefs(logs.relationships[i]) : i \in 1..15}) = 15
    /\ \E i \in 1..15 : NamedRefs(logs.relationships[i]) = {"provenance doc"}
    /\ logs.relationships[16].level = "debug"

\* C8: exporting the relationships of a set of provenance documents as the
\* four-sheet bundle and importing the bundle again yields the same set of
\* relationship tuples: imported into the store it came from it adds,
\* removes and re-attaches none; imported into an empty store it
\* reproduces the exported tuples.
C8_RoundTrip ==
    pc = "idle"
        => \A provenance_docs \in ExportFilters :
              LET r == export_relationships(store, "excel", provenance_docs)
                  workbook == [readable |-> TRUE, sheets |-> r.sheets]
                  same == ImportFile(store, workbook)
                  fresh == ImportFile(EmptyDb, workbook)
                  \* a relationship by the identifiers of what it joins
                  IdentTuple(j) ==
                      << j.sd.doc_identifier, j.se.element_identifier,
                         j.dd.doc_identifier, j.de.element_identifier,
                         j.rt.relationship_identifier,
                         j.pd.doc_identifier >>
                  RowTuple(row) ==
                      << row.source_doc_identifier,
                         row.source_element_identifier,
                         row.dest_doc_identifier,
                         row.dest_element_identifier,
                         row.relationship_identifier,
                         row.provenance_doc_identifier >>
              IN  r.status = 200
                     => /\ same.outcome = "committed"
                        /\ same.db.relationships = store.relationships
                        /\ fresh.outcome = "committed"
                        /\ {IdentTuple(j) :
                               j \in JoinedRelationships(fresh.db)}
                               = {RowTuple(r.sheets[3].rows[i]) :
                                     i \in 1..Len(r.sheets[3].rows)}

\* C9: an export filtered to a set S of provenance documents returns
\* exactly the relationships whose provenance document is in S, and its
\* documents, elements and relationship_types sheets hold only rows those
\* relationships refer to.
C9_ExportFilterExact ==
    (response.endpoint = "export"
         /\ ProvDocList(response.provenance_docs) # {})
        => LET S == ProvDocList(response.provenance_docs)
               wanted ==
                   {r \in store.relationships :
                       \E d \in store.documents :
                           /\ d.document_id = r.prov_doc_id
                           /\ d.doc_identifier \in S}
               sheet(name) ==
                   (CHOOSE sh \in {response.sheets[k] :
                                      k \in 1..Len(response.sheets)} :
                        sh.name = name).rows
               rels == sheet("relationships")
               RelRows == {rels[i] : i \in 1..Len(rels)}
           IN  IF wanted = {} THEN response.status = 404
               ELSE /\ response.status = 200
                    /\ Len(rels) = Cardinality(wanted)
                    /\ \A row \in RelRows :
                          row.provenance_doc_identifier \in S
                    /\ response.format = "excel"
                          => /\ \A i \in 1..Len(sheet("documents")) :
                                   \E row \in RelRows :
                                      sheet("documents")[i].doc_identifier
                                          \in {row.source_doc_identifier,
                                               row.dest_doc_identifier}
                             /\ \A i \in 1..Len(sheet("elements")) :
                                   \E row \in RelRows :
                                      << sheet("elements")[i].doc_identifier,
                                         sheet("elements")[i]
                                             .element_identifier >>
                                          \in {<< row.source_doc_identifier,
                                                  row.source_element_identifier
                                               >>,
                                               << row.dest_doc_identifier,
                                                  row.dest_element_identifier
                                               >>}
                             /\ \A i \in 1..Len(sheet("relationship_types")) :
                                   \E row \in RelRows :
                                      sheet("relationship_types")[i]
                                          .relationship_identifier
                                          = row.relationship_identifier

\* C10: format detection is determined by the sheet count and the columns
\* of the first sheet: "csf" (single-sheet) for one sheet without the
\* baseline column and with the three core columns, "sp800-53"
\* (multi-sheet) for more than one sheet with the baseline column, and for
\* every other combination an error whose message holds the sheet count
\* and the columns.
C10_DetectionRules ==
    file_type.type # "none"
        => LET n == file_shape.num_sheets
               Has(name) ==
                   \E col \in file_shape.header : CleanHeader(col) = name
               baseline ==
                   \/ "Security Control Baseline" \in file_shape.header
                   \/ "Security Control\nBaseline" \in file_shape.header
               core ==
                   /\ "Focal Document\nElement" \in file_shape.header
                   /\ " Focal Document Element Description"
                          \in file_shape.header
                   /\ "Reference Document Element" \in file_shape.header
           IN  IF n = 1 /\ ~ baseline /\ core
               THEN file_type = [type |-> "csf"]
               ELSE IF n > 1 /\ baseline
               THEN file_type = [type |-> "sp800-53"]
               ELSE /\ file_type.type = "ValueError"
                    /\ {"sheets", "columns"} \subseteq DOMAIN file_type.cause
                    /\ file_type.cause.sheets = n
                    /\ \A col \in file_shape.header :
                          CleanHeader(col) \in file_type.cause.columns
                    /\ \A name \in file_type.cause.columns : Has(name)

\* C11: a lookup of a pair that has no matching row never raises: it
\* returns a sentinel whose message contains both the document identifier
\* and the element identifier, and the batch goes on with the next lookup.
C11_MissingPairSentinel ==
    (/\ lookup.operation = "lookup"
     /\ lookup.fault = "none"
     /\ ~ lookup.has_row)
        => /\ lookup.raised = "none"
           /\ lookup.value.title = "Element not found"
           /\ Contains(lookup.value.text, lookup.document_id)
           /\ Contains(lookup.value.text, lookup.element_id)
           /\ enhancer.pc \in {"source", "dest", "save"}

\* C12: within a run, once a lookup of a pair has returned a found or a
\* not-found result, every later lookup of that pair returns the same
\* result and queries the store no more, whatever happened in between.
C12_CacheNeverInvalidated ==
    [][\A pair \in DOMAIN answered :
          (/\ lookup' # lookup
           /\ lookup'.operation = "lookup"
           /\ << lookup'.document_id, lookup'.element_id >> = pair)
             => /\ lookup'.raised = "none"
                /\ lookup'.value = answered[pair]
                /\ ~ lookup'.queried
                /\ lookup'.opened = 0]_vars

\* the pair (D1, E1) was looked up before the import tool added its
\* element, and looked up again afterwards: the answer is the one of the
\* first lookup and the store was not asked
C12_Witness ==
    /\ lookup.operation = "lookup"
    /\ lookup.document_id = "D1"
    /\ lookup.element_id = "E1"
    /\ lookup.has_row
    /\ ~ lookup.queried
    /\ lookup.value = NotFound("D1", "E1")
    /\ << "D1", "E1" >> \in DOMAIN answered

\* C13: after a document, an element or a relationship type has been
\* deleted, no element and no relationship refers to a removed row: the
\* elements of a removed document are gone, and so is every relationship
\* with a removed element as source or destination, a removed document as
\* provenance or a removed relationship type.
C13_DeleteCascades ==
    /\ \A e \in store.elements :
          << "documents", e.document_id >> \notin removed
    /\ \A r \in store.relationships :
          /\ << "elements", r.source_id >> \notin removed
          /\ << "elements", r.dest_id >> \notin removed
          /\ << "documents", r.prov_doc_id >> \notin removed
          /\ << "relationship_types", r.relationship_type >> \notin removed

\* C14: at most one document exists per doc_identifier, and once a document
\* with an identifier exists, no import and no API request removes it or
\* changes its name, version, website or type: a later write of the same
\* identifier is dropped.
C14_FirstWriteWins ==
    /\ [](\A d1, d2 \in store.documents :
              d1.doc_identifier = d2.doc_identifier => d1 = d2)
    /\ [][\A d \in store.documents :
              /\ d \in store'.documents
              /\ \A e \in store'.documents :
                    e.doc_identifier = d.doc_identifier
                        => /\ e.name = d.name
                           /\ e.version = d.version
                           /\ e.website = d.website
                           /\ e.type = d.type]_vars

\* a workbook that declares D1 under another name, version, website and
\* type was imported after D1 existed: its document D3 is there, its
\* insert of D1 consumed an id, and D1 is as first written
C14_Witness ==
    /\ \E d \in store.documents : d.doc_identifier = "D3"
    /\ \E d \in store.documents :
          /\ d.doc_identifier = "D1"
          /\ d.name = "Doc"
          /\ d.type = "standard"
    /\ store.seq.documents > Cardinality(store.documents)

\* the records of the elements sheet at hand that are identical to a stored
\* row in the owning document, the element identifier, the title and the
\* text
DuplicateElements ==
    {i \in 1..Len(cprt_data.elements) :
        LET element == cprt_data.elements[i]
            p == ElementParams(element)
            document_id ==
                DocIdOf(conn, Get(element, "document_identifier", ""))
        IN  \E e \in conn.elements :
                ElemKey(e) = << document_id, p[2], p[3], p[4] >>}

\* C15: no two element rows agree on (document_id, element_identifier,
\* title, text); the insert of a record identical in these four fields to
\* a stored row is executed without an error, and a sheet made of such
\* records adds no row and lets the import go on.
C15_ElementsUnique ==
    [][/\ \A e1, e2 \in conn'.elements :
             ElemKey(e1) = ElemKey(e2) => e1 = e2
       /\ pc = "elements"
             => /\ \A i \in DuplicateElements :
                      i <= Len(logs'.elements)
                          => logs'.elements[i] = Debug
                /\ (/\ cprt_data.elements # << >>
                    /\ DuplicateElements = 1..Len(cprt_data.elements))
                      => /\ conn'.elements = conn.elements
                         /\ counts'.elements = Len(cprt_data.elements)
                         /\ pc' = "relationship_types"]_vars

\* the elements step has executed an insert for every record of a sheet
\* whose rows were all stored already, and the table is as it was
C15_Witness ==
    /\ pc = "relationship_types"
    /\ counts.elements = Len(cprt_data.elements)
    /\ counts.elements > 1
    /\ conn.elements = store.elements
    /\ conn.seq.elements = store.seq.elements + counts.elements

\* the relationship tuples of the body of a request
RequestTuples(i) ==
    LET body == requests[i].body
    IN  {<< body.relationships[k].source_element_id,
            body.relationships[k].dest_element_id,
            body.provenance_doc_id,
            body.relationships[k].relationship_type_id >> :
                k \in 1..Len(body.relationships)}

\* C16: when two bulk-create requests that contain the same relationship
\* tuple have been served at the same time, the store holds exactly one
\* row for that tuple and both requests have ended without an error.
C16_RaceLoserIgnored ==
    (\A i \in Clients : requests[i].pc = "done")
        => \A t \in RequestTuples(1) \cap RequestTuples(2) :
              /\ Cardinality({r \in store.relationships : RelKey(r) = t}) = 1
              /\ \A i \in Clients : requests[i].status = 200

\* C17: an authoring request with a missing or invalid identifier in its
\* body (a bulk-create without a provenance id, with no relationship, or
\* with a relationship that lacks an id field; a provenance-document
\* creation that names a document the store does not hold) is answered
\* with a 4xx status and leaves the store as it was.
C17_InvalidRejected ==
    [][(/\ response' # response
        /\ \/ /\ response'.endpoint = "bulk"
              /\ LET body == response'.request
                 IN  \/ "provenance_doc_id" \notin DOMAIN body
                     \/ Get(body, "relationships", << >>) = << >>
                     \/ \E k \in 1..Len(body.relationships) :
                           ~ ({"source_element_id", "dest_element_id",
                               "relationship_type_id"}
                                  \subseteq DOMAIN body.relationships[k])
           \/ /\ response'.endpoint = "provenance"
              /\ \/ DocumentsNamed(store,
                        response'.request.target_doc_identifier) = {}
                 \/ DocumentsNamed(store,
                        response'.request.source_doc_identifier) = {})
          => /\ response'.status \in 400..499
             /\ store' = store]_vars

\* C18: a provenance-document creation answered with 200 adds exactly one
\* document, of type 'mapping_document' and with the identifier
\* MAPPING_<target>_TO_<source>_<timestamp>; a listing returns, once each,
\* exactly the documents whose type is not 'mapping_document', so it
\* returns no document created this way.
C18_CreatedNeverListed ==
    [][/\ (/\ response' # response
           /\ response'.endpoint = "provenance"
           /\ response'.status = 200)
             => \E d \in store'.documents :
                   /\ d \notin store.documents
                   /\ store'.documents = store.documents \cup {d}
                   /\ d.type = "mapping_document"
                   /\ d.doc_identifier = response'.provenance_doc_identifier
                   /\ \E timestamp \in Timestamps :
                         d.doc_identifier =
                             "MAPPING_"
                                 \o response'.request.target_doc_identifier
                                 \o "_TO_"
                                 \o response'.request.source_doc_identifier
                                 \o "_" \o timestamp
       /\ (/\ response' # response
           /\ response'.endpoint = "documents")
             => LET listing == response'.documents
                    rows == {d \in store.documents :
                                d.type # "mapping_document"}
                IN  /\ Len(listing) = Cardinality(rows)
                    /\ {listing[k] : k \in 1..Len(listing)}
                           = {Listed(d) : d \in rows}
                    /\ \A d \in store.documents :
                          d.type = "mapping_document"
                              => \A k \in 1..Len(listing) :
                                    listing[k].doc_identifier
                                        # d.doc_identifier]_vars

\* documents were listed while the store held imported documents and a
\* provenance document that a request had created
C18_Witness ==
    /\ response.endpoint = "documents"
    /\ response.documents # << >>
    /\ \E d \in store.documents :
          /\ d.type = "mapping_document"
          /\ d.website = "Generated by Document Relationship Mapper"
    /\ Len(response.documents)
           = Cardinality({d \in store.documents :
                             d.type # "mapping_document"})

\* C19: every store-reading operation of the mapping enhancement (the
\* structure validation, a lookup) has closed each connection it opened
\* when it ends, and none ends with an exception of the release step: not
\* when its query fails, and not when the connection cannot be opened.
C19_ConnectionsReleased ==
    lookup.operation # "none"
        => /\ lookup.closed = lookup.opened
           /\ lookup.raised # "UnboundLocalError"

\* C20: table creation called on a database that holds any subset of the
\* four tables does not raise, leaves every table that existed with the
\* rows it had, and ends with the four tables present.
C20_CreateTablesIdempotent ==
    [][ddl' # ddl
          => /\ ~ ddl'.raised
             /\ schema' = TableNames
             /\ \A t \in schema : store'[t] = store[t]
             /\ \A t \in TableNames \ schema : store'[t] = {}
             /\ store'.seq = store.seq]_vars

\* table creation has run on a database that held some of the tables, with
\* rows, and lacked others
C20_Witness ==
    /\ \E k \in 1..Len(ddl.log) : ddl.log[k][2] = "ready"
    /\ \E k \in 1..Len(ddl.log) :
          /\ ddl.log[k][2] = "already exists"
          /\ store[ddl.log[k][1]] # {}
    /\ schema = TableNames

\* C21: a file the enhancement saves is a new file beside the input file,
\* never the input file itself; its columns are the input's columns in their
\* order with source_text and then dest_text right after dest_title, and
\* its rows are the input's rows in their order.
C21_EnhancedFileLayout ==
    /\ LET out == enhancer.written
           f == MappingFile(out.stem)
           at == CHOOSE i \in 1..Len(out.columns) :
                     out.columns[i] = "dest_title"
       IN  out.path # "None"
               => /\ out.path # out.stem \o ".xlsx"
                  /\ \A i \in 1..Len(enhancer.mapping_files) :
                        out.path # enhancer.mapping_files[i] \o ".xlsx"
                  /\ enhancer.enhanced_files[Len(enhancer.enhanced_files)]
                         = "saved"
                  /\ enhancer.mapping_files[Len(enhancer.enhanced_files)]
                         = out.stem
                  /\ \E i \in 1..Len(out.columns) :
                        out.columns[i] = "dest_title"
                  /\ Len(out.columns) >= at + 2
                  /\ out.columns[at + 1] = "source_text"
                  /\ out.columns[at + 2] = "dest_text"
                  /\ SelectSeq(out.columns,
                               LAMBDA c : c \notin {"source_text",
                                                    "dest_text"})
                         = f.columns
                  /\ Len(out.rows) = Len(f.rows)
                  /\ \A i \in 1..Len(f.rows) :
                        \A c \in DOMAIN f.rows[i] :
                            out.rows[i][c] = f.rows[i][c]

\* a file with two rows and a column after dest_title has been enhanced and
\* saved
C21_Witness ==
    /\ enhancer.written.path # "None"
    /\ Len(enhancer.written.rows) = 2
    /\ enhancer.written.columns[Len(enhancer.written.columns)]
           = "relationship_type"

\* C22: in the summary of a saved file, the count of unresolved source
\* (destination) endpoints is the number of source (destination) lookups
\* of that file that returned the not-found or the lookup-error dictionary.
C22_SummaryCountsUnresolved ==
    enhancer.written.path # "None"
        => /\ enhancer.written.summary.empty_source_text
                  = enhancer.written.unresolved.source_texts
           /\ enhancer.written.summary.empty_dest_text
                  = enhancer.written.unresolved.dest_texts

\* C23: within a file's transaction the steps run in the order documents,
\* elements, relationship types, relationships, and each resolves against
\* what the earlier steps of the transaction inserted: when the file that
\* defines two documents, their elements, a relationship type, a provenance
\* document and a relationship among them reaches its commit, no row of it
\* was skipped and the transaction holds all of them.
C23_StepsInOrder ==
    /\ [](pc = "commit" /\ excel_files[file_index] = "base"
            => /\ \A st \in Steps :
                     /\ Len(logs[st]) = Len(BaseRows[st])
                     /\ \A i \in 1..Len(logs[st]) :
                           logs[st][i].level = "debug"
               /\ \A id \in {"D1", "D2", "P"} :
                     \E d \in conn.documents : d.doc_identifier = id
               /\ \A p \in {<< "D1", "E1" >>, << "D1", "E2" >>,
                            << "D2", "E3" >>} :
                     ElementNamed(conn, p[1], p[2])
               /\ \E r \in conn.relationships :
                     /\ \E e \in ElementsById(conn, r.source_id) :
                           /\ e.element_identifier = "E1"
                           /\ \E d \in DocumentsById(conn, e.document_id) :
                                 d.doc_identifier = "D1"
                     /\ \E e \in ElementsById(conn, r.dest_id) :
                           /\ e.element_identifier = "E3"
                           /\ \E d \in DocumentsById(conn, e.document_id) :
                                 d.doc_identifier = "D2"
                     /\ \E d \in DocumentsById(conn, r.prov_doc_id) :
                           d.doc_identifier = "P"
                     /\ \E t \in TypesById(conn, r.relationship_type) :
                           t.relationship_identifier = "related_to")
    /\ [][/\ pc = "documents" => pc' \in {"elements", "except"}
          /\ pc = "elements" => pc' \in {"relationship_types", "except"}
          /\ pc = "relationship_types"
                => pc' \in {"relationships", "except"}
          /\ pc = "relationships" => pc' \in {"commit", "except"}
          /\ pc' = "documents" => pc = "process"
          /\ pc' = "commit" => pc = "relationships"]_vars

\* that file has been committed to a store that was empty before it
C23_Witness ==
    /\ Len(outcome) = 1
    /\ outcome[1] = "committed"
    /\ excel_files[1] = "base"
    /\ Cardinality(store.relationships) = 1
    /\ Cardinality(store.elements) = 3

C25_EmptyExportReported ==
    [][response'.endpoint = "export" /\ response' # response
          => LET names == ProvDocList(response'.provenance_docs)
                 matching ==
                     {r \in store.relationships :
                         /\ \E e \in ElementsById(store, r.source_id) :
                               DocumentsById(store, e.document_id) # {}
                         /\ \E e \in ElementsById(store, r.dest_id) :
                               DocumentsById(store, e.document_id) # {}
                         /\ TypesById(store, r.relationship_type) # {}
                         /\ \E d \in DocumentsById(store, r.prov_doc_id) :
                               names # {} => d.doc_identifier \in names}
             IN  matching = {}
                     => /\ response'.status = 404
                        /\ response'.sheets = << >>
                        /\ store' = store
                        /\ conn' = conn]_vars

\* an export has been answered 404 for its filter on a store that holds
\* relationships the export of everything returns
C25_Witness ==
    /\ response.endpoint = "export"
    /\ response.status = 404
    /\ response.provenance_docs = << "D1 " >>
    /\ export_relationships(store, "csv", << >>).status = 200

\* C26: map_dictionaries does not raise, and its output has one row per
\* input row, in the order of the input; each output row has exactly the
\* field names of the mapping as keys, a field holding the value of its
\* source column in the input row, or the empty string when the input row
\* lacks that column.
C26_MappingPreservesRows ==
    mapped.called
        => /\ ~ mapped.result.raised
           /\ Len(mapped.result.mapped_data) = Len(mapped.data)
           /\ \A i \in 1..Len(mapped.data) :
                 LET out == mapped.result.mapped_data[i]
                 IN  /\ DOMAIN out
                            = {mapped.mapping[k][1] :
                                  k \in 1..Len(mapped.mapping)}
                     /\ \A k \in 1..Len(mapped.mapping) :
                           out[mapped.mapping[k][1]]
                               = IF mapped.mapping[k][2]
                                        \in DOMAIN mapped.data[i]
                                 THEN mapped.data[i][mapped.mapping[k][2]]
                                 ELSE ""

\* two rows have been mapped, the first lacking a column the mapping
\* names, the second holding it
C26_Witness ==
    /\ mapped.called
    /\ Len(mapped.data) = 2
    /\ Len(mapped.mapping) = 2
    /\ mapped.mapping[2][1] = "text"
    /\ "Focal Document Element Description" \notin DOMAIN mapped.data[1]
    /\ "Focal Document Element Description" \in DOMAIN mapped.data[2]
    /\ mapped.result.mapped_data[1].text = ""
    /\ mapped.result.mapped_data[2].text = "AC-02"

\* C27: the cache never confuses two pairs: a lookup is served from the
\* cache only with what an earlier lookup of the same pair (document,
\* element) returned, never with the result cached for another pair.
C27_CacheKeepsPairsApart ==
    [][(/\ lookup' # lookup
        /\ lookup'.operation = "lookup"
        /\ lookup'.raised = "none"
        /\ ~ lookup'.queried)
          => /\ << lookup'.document_id, lookup'.element_id >>
                    \in DOMAIN answered
             /\ lookup'.value
                    = answered[<< lookup'.document_id,
                                  lookup'.element_id >>]]_vars

\* C28: for a bulk-create request that completes, success_count is the
\* number of relationship rows the request added to the store,
\* total_attempted the number of entries of the request,
\* 0 <= success_count <= total_attempted, and an entry that repeats the
\* 4-tuple of a stored relationship or of an earlier entry of the request
\* adds no row and is not counted.
C28_BulkCountsRowsAdded ==
    [][bulks' # bulks /\ response'.status = 200
          => LET entries == response'.request.relationships
                 tuple(i) ==
                     << entries[i].source_element_id,
                        entries[i].dest_element_id,
                        response'.request.provenance_doc_id,
                        entries[i].relationship_type_id >>
                 added == store'.relationships \ store.relationships
             IN  /\ response'.success_count = Cardinality(added)
                 /\ store.relationships \subseteq store'.relationships
                 /\ response'.total_attempted = Len(entries)
                 /\ response'.success_count >= 0
                 /\ response'.success_count <= response'.total_attempted
                 /\ response'.success_count
                        = Cardinality({tuple(i) : i \in 1..Len(entries)}
                                         \ {RelKey(r) :
                                               r \in store.relationships})
                 /\ {RelKey(r) : r \in added}
                        = {tuple(i) : i \in 1..Len(entries)}
                              \ {RelKey(r) : r \in store.relationships}]_vars

\* C29: the totals of a batch are the sums of the per-step counts of the
\* files whose transaction committed: they start at zero, the commit of a
\* file adds the counts its four steps returned, and no other step, the
\* rollback of a file included, changes them.
C29_TotalsOfCommittedFiles ==
    /\ [][IF pc = "idle" THEN total_stats' = ZeroCounts
          ELSE IF outcome' = Append(outcome, "committed")
          THEN \A st \in Steps :
                  total_stats'[st] = total_stats[st] + counts[st]
          ELSE total_stats' = total_stats]_vars
    /\ [](pc = "summary" /\ (\A i \in 1..Len(outcome) :
                                outcome[i] = "rolled_back")
            => total_stats = ZeroCounts)

\* a batch has ended whose first file was committed and whose second file
\* was rolled back after steps of it had counted rows: the totals are the
\* counts of the first file
C29_Witness ==
    /\ pc = "summary"
    /\ outcome = << "committed", "rolled_back" >>
    /\ excel_files[1] = "base"
    /\ counts.documents > 0
    /\ counts.elements > 0
    /\ total_stats = [documents |-> 3, elements |-> 3,
                      relationship_types |-> 1, relationships |-> 1]

\* C30: in the elements step, a row whose document identifier names no
\* document of the store is skipped with a warning: it raises nothing, it
\* is not counted, no element is inserted for it, and the rows after it
\* are processed.
C30_OrphanElementSkipped ==
    [][pc = "elements" /\ pc' # pc
          => LET rows == cprt_data.elements
                 log == logs'.elements
                 DocOf(i) == Get(rows[i], "document_identifier", "")
                 Orphan(i) ==
                     ~ \E d \in conn.documents : d.doc_identifier = DocOf(i)
                 executed ==
                     {i \in 1..Len(log) : log[i].level = "debug"}
             IN  /\ \A i \in 1..Len(rows) :
                       Orphan(i)
                         => /\ i <= Len(log) => log[i].level = "warning"
                            /\ i \notin executed
                            /\ pc' = "except" => i # Len(log) + 1
                 /\ pc' # "except" => Len(log) = Len(rows)
                 /\ counts'.elements = Cardinality(executed)
                 /\ conn.elements \subseteq conn'.elements
                 /\ \A e \in conn'.elements \ conn.elements :
                       \E i \in executed :
                          /\ e.element_identifier
                                 = Get(rows[i], "element_identifier", "")
                          /\ \E d \in conn.documents :
                                /\ d.document_id = e.document_id
                                /\ d.doc_identifier = DocOf(i)]_vars

\* the elements step has skipped a row of an unknown document and inserted
\* the row after it
C30_Witness ==
    /\ pc = "relationship_types"
    /\ excel_files[file_index] = "ambiguous"
    /\ Len(logs.elements) = 2
    /\ logs.elements[1].level = "warning"
    /\ logs.elements[2].level = "debug"
    /\ counts.elements = 1
    /\ Cardinality(conn.elements \ store.elements) = 1

\* C31: a retrieval by an identifier no document has is answered 404 with
\* no bundle; otherwise the bundle holds that one document, exactly the
\* elements of that document, and exactly the relationships of the store
\* whose source element or destination element belongs to it; the store is
\* not modified.
C31_DocumentBundleExact ==
    [][response'.endpoint = "getDocument" /\ response' # response
          => LET id == response'.document_identifier
                 OfDoc(element_id) ==
                     \E e \in ElementsById(store, element_id) :
                        \E d \in DocumentsById(store, e.document_id) :
                           d.doc_identifier = id
                 owned == {e \in store.elements : OfDoc(e.element_id)}
                 involved ==
                     {r \in store.relationships :
                         OfDoc(r.source_id) \/ OfDoc(r.dest_id)}
                 bundle == response'.bundle
             IN  /\ store' = store
                 /\ conn' = conn
                 /\ IF \A d \in store.documents : d.doc_identifier # id
                    THEN /\ response'.status = 404
                         /\ bundle = << >>
                    ELSE /\ response'.status = 200
                         /\ Len(bundle.documents) = 1
                         /\ bundle.documents[1].doc_identifier = id
                         /\ Len(bundle.elements) = Cardinality(owned)
                         /\ \A e \in owned :
                               \E i \in 1..Len(bundle.elements) :
                                  /\ bundle.elements[i].element_identifier
                                         = e.element_identifier
                                  /\ bundle.elements[i].title = e.title
                                  /\ bundle.elements[i].text = e.text
                         /\ Len(bundle.relationships)
                                = Cardinality(involved)]_vars

\* C32: normalizing a readable bundle file does not fail and returns the
\* four buckets: a bucket with no sheet of its name, or with an empty one,
\* is the empty list, a sheet of another name is ignored, and a recognized
\* sheet gives one record per row, in the order of the rows, with an empty
\* string for each missing cell.
C32_NormalizeFourBuckets ==
    [][pc = "process" /\ pc' # pc
          => LET workbook == Workbook(excel_files[file_index], exported)
                 named(b) ==
                     {s \in 1..Len(workbook.sheets) :
                         workbook.sheets[s].name = b}
                 rows(b) == workbook.sheets[CHOOSE s \in named(b) : TRUE].rows
             IN  workbook.readable
                   => /\ pc' = "documents"
                      /\ DOMAIN cprt_data' = Steps
                      /\ \A b \in Steps :
                            IF named(b) = {} THEN cprt_data'[b] = << >>
                            ELSE /\ Len(cprt_data'[b]) = Len(rows(b))
                                 /\ \A i \in 1..Len(rows(b)) :
                                       \A h \in DOMAIN rows(b)[i] :
                                          /\ CleanHeader(h)
                                               \in DOMAIN cprt_data'[b][i]
                                          /\ rows(b)[i][h] = NaN
                                               => cprt_data'[b][i]
                                                      [CleanHeader(h)] = ""
                                          /\ rows(b)[i][h]
                                                 \in {"D1", "E1", "x", "c1"}
                                               => cprt_data'[b][i]
                                                      [CleanHeader(h)]
                                                      = rows(b)[i][h]]_vars

C34_CreateRelationshipValidatesOnly ==
    [][response'.endpoint = "relationship" /\ response' # response
          => LET req == response'.request
                 Ids(doc, el) ==
                     {e.element_id : e \in
                         {x \in store.elements :
                             /\ x.element_identifier = el
                             /\ \E d \in DocumentsById(store, x.document_id) :
                                   d.doc_identifier = doc}}
                 sources == Ids(req.source_doc_identifier,
                                req.source_element_identifier)
                 dests == Ids(req.dest_doc_identifier,
                              req.dest_element_identifier)
                 types ==
                     {rt.type_id : rt \in
                         {x \in store.relationship_types :
                             x.relationship_identifier
                                 = req.relationship_identifier}}
             IN  /\ store' = store
                 /\ IF sources # {} /\ dests # {} /\ types # {}
                    THEN /\ response'.status = 200
                         /\ response'.source_element_id \in sources
                         /\ response'.dest_element_id \in dests
                         /\ response'.relationship_type_id \in types
                    ELSE /\ response'.status = 400
                         /\ response'.source_element_id = NULL]_vars

\* a relationship between two imported elements has been validated on a
\* store that holds one relationship, and the ids of both were returned
C34_Witness ==
    /\ response.endpoint = "relationship"
    /\ response.status = 200
    /\ response.source_element_id = 1
    /\ response.dest_element_id = 3
    /\ Cardinality(store.relationships) = 1

\* C35: a request for a provenance document whose target and source
\* documents both exist succeeds, and the identifier it yields is one no
\* document had before and the new document has now, also when the same
\* pair has been asked for before.
C35_ProvenanceIdentifierFresh ==
    [][(/\ response'.endpoint = "provenance"
        /\ creations' # creations
        /\ DocumentsNamed(store, response'.request.target_doc_identifier)
               # {}
        /\ DocumentsNamed(store, response'.request.source_doc_identifier)
               # {})
          => /\ response'.status = 200
             /\ DocumentsNamed(store, response'.provenance_doc_identifier)
                    = {}
             /\ Cardinality(DocumentsNamed(store',
                    response'.provenance_doc_identifier)) = 1]_vars

\* C36: the four sheets of an export are closed under the endpoints of its
\* relationships: the source and the destination element of every exported
\* relationship are rows of the elements sheet, their documents are rows of
\* the documents sheet and its type is a row of the relationship_types
\* sheet.
C36_ExportClosed ==
    response.endpoint = "export" /\ response.status = 200
        /\ response.format = "excel"
      => LET Sheet(name) ==
                 (CHOOSE s \in {response.sheets[i] :
                                   i \in 1..Len(response.sheets)} :
                     s.name = name).rows
             Has(name, P(_)) ==
                 \E i \in 1..Len(Sheet(name)) : P(Sheet(name)[i])
             relationships == Sheet("relationships")
         IN  \A k \in 1..Len(relationships) :
                LET rel == relationships[k]
                    IsSource(e) ==
                        /\ e.doc_identifier = rel.source_doc_identifier
                        /\ e.element_identifier
                               = rel.source_element_identifier
                    IsDest(e) ==
                        /\ e.doc_identifier = rel.dest_doc_identifier
                        /\ e.element_identifier = rel.dest_element_identifier
                    IsSourceDoc(d) ==
                        d.doc_identifier = rel.source_doc_identifier
                    IsDestDoc(d) ==
                        d.doc_identifier = rel.dest_doc_identifier
                    IsType(t) ==
                        t.relationship_identifier
                            = rel.relationship_identifier
                IN  /\ Has("elements", IsSource)
                    /\ Has("elements", IsDest)
                    /\ Has("documents", IsSourceDoc)
                    /\ Has("documents", IsDestDoc)
                    /\ Has("relationship_types", IsType)

\* a workbook has been exported whose relationship runs from an element of
\* one document to an element of another, from a store that holds an
\* element no relationship refers to
C36_Witness ==
    /\ response.endpoint = "export"
    /\ response.status = 200
    /\ response.format = "excel"
    /\ response.db = store
    /\ \E i \in 1..Len(response.sheets) :
          /\ response.sheets[i].name = "relationships"
          /\ \E k \in 1..Len(response.sheets[i].rows) :
                response.sheets[i].rows[k].source_doc_identifier
                    # response.sheets[i].rows[k].dest_doc_identifier
    /\ \E e \in store.elements :
          \A r \in store.relationships :
             r.source_id # e.element_id /\ r.dest_id # e.element_id

\* C37: a lookup that asks the store and fails with a store error returns
\* the lookup-error result and leaves the cache as it was, so that the
\* next lookup of the pair asks the store again; a lookup that finds no
\* row returns the not-found result and caches it.
C37_StoreErrorNotCached ==
    [][(/\ enhancer.pc \in {"source", "dest"}
        /\ enhancer' # enhancer
        /\ lookup'.operation = "lookup"
        /\ CacheKey(lookup'.document_id, lookup'.element_id)
               \notin DOMAIN enhancer.element_cache)
          => LET cache_key ==
                     CacheKey(lookup'.document_id, lookup'.element_id)
             IN  IF lookup'.fault # "none"
                 THEN /\ lookup'.raised = "none"
                      /\ lookup'.value = LookupError
                      /\ enhancer'.element_cache = enhancer.element_cache
                 ELSE /\ lookup'.queried
                      /\ cache_key \in DOMAIN enhancer'.element_cache
                      /\ enhancer'.element_cache[cache_key] = lookup'.value
                      /\ ~ lookup'.has_row
                           => lookup'.value
                                  = NotFound(lookup'.document_id,
                                             lookup'.element_id)]_vars

\* C38: an export whose provenance filter is absent or holds blank entries
\* only returns all the relationships of the store; an export whose filter
\* holds a non-blank entry returns the relationships whose provenance
\* document is one of its entries, trimmed, the blank entries being
\* ignored.  An export of no relationship is answered 404.
C38_BlankFilterIsNoFilter ==
    response.endpoint = "export"
      => LET listed ==
                 CASE response.provenance_docs = << >> -> {}
                   [] response.provenance_docs = << " " >> -> {}
                   [] response.provenance_docs = << "P" >> -> {"P"}
                   [] response.provenance_docs = << " P", " " >> -> {"P"}
                   [] response.provenance_docs = << "D1 " >> -> {"D1"}
             wanted ==
                 IF listed = {} THEN response.db.relationships
                 ELSE {r \in response.db.relationships :
                          \E d \in DocumentsById(response.db, r.prov_doc_id) :
                             d.doc_identifier \in listed}
         IN  IF wanted = {} THEN response.status = 404
             ELSE /\ response.status = 200
                  /\ \E s \in 1..Len(response.sheets) :
                        /\ response.sheets[s].name = "relationships"
                        /\ Len(response.sheets[s].rows) = Cardinality(wanted)
                        /\ listed # {}
                             => \A i \in 1..Len(response.sheets[s].rows) :
                                   response.sheets[s].rows[i]
                                       .provenance_doc_identifier \in listed

====
